---- MODULE Spec2Model ----
(***************************************************************************)
(* Kirby Air Ride Archipelago client: the Dolphin sync loop                *)
(* (KARClient.dolphin_sync_task), the item delivery tasks it and the       *)
(* session layer start (KARContext.give_items), and the transition /       *)
(* debounce probe of DolphinInterface.                                     *)
(*                                                                         *)
(* One asyncio task runs at a time, so every action is the code between   *)
(* two suspension points of one task.  Time is in whole seconds.  The code *)
(* uses time.time() only to compare it with a stored timestamp plus a      *)
(* window, so the state keeps, for each timestamp, the seconds elapsed     *)
(* since it, up to the window: the comparison time.time() >= stamp + w is  *)
(* elapsed >= w.  The clock itself is unbounded.                           *)
(***************************************************************************)
EXTENDS Integers, Sequences, FiniteSets, Bags, TLC

(* ------------------------------ bounds -------------------------------- *)
\* items the session layer ever delivers to this slot
MaxItems == 2
\* give_items tasks alive at once
MaxTasks == 2
\* checklist locations of the location table
MaxLocs == 2
\* patch items applied in a row
MaxSeq == 2

(* ------------------------- program constants -------------------------- *)
TRANSITION_WAIT == 6
RECONNECT_DELAY == 5
WAIT_TIMEOUT == 1
CITY_TRIAL_MENU_SELECTION == 512
CITY_TRIAL_STAGE_ID == 9
DEATH_LINK_COOLDOWN == 120
BOX_LOCKED == 0
BOX_FLAGGED == 1
BOX_VISIBLE == 16
BOOST_UP == 30
BOOST_UP_PERMANENT == 48

CONNECTION_REFUSED_GAME_STATUS == "refused"
CONNECTION_LOST_STATUS == "lost"
CONNECTION_CONNECTED_STATUS == "connected"
CONNECTION_INITIAL_STATUS == "initial"

(* ------------------------------ items --------------------------------- *)
ItemIds == {BOOST_UP, BOOST_UP_PERMANENT}

\* a code that is no key of LOOKUP_ID_TO_NAME: 29, whose entry "Red Box" is
\* commented out of ITEM_TABLE
UNKNOWN_ITEM == BOOST_UP - 1

\* Items.LOOKUP_ID_TO_NAME; a name is the sequence of its words, so that
\* Python's substring test `pat in name` is a search for a run of words
LOOKUP_ID_TO_NAME(id) ==
    IF id = BOOST_UP THEN <<"Boost", "Up">>
    ELSE IF id = BOOST_UP_PERMANENT
    THEN <<"Boost", "Up", ":", "Permanent", "+1">>
    ELSE <<>>

\* Python `pat in name` on the word sequences
Contains(name, pat) ==
    \E k \in 0..(Len(name) - Len(pat)) :
        \A j \in 1..Len(pat) : name[k + j] = pat[j]

IsPermanentName(id) == Contains(LOOKUP_ID_TO_NAME(id), <<"Permanent">>)

Min(S) == CHOOSE x \in S : \A y \in S : x <= y

\* one more second on a count of elapsed seconds that stops at its window
Tick(age, window) == IF age \in 0..(window - 1) THEN age + 1 ELSE age

\* how often an item was written: "never", "once", or "again" (more than
\* once); "due" is "never" for a permanent item that an entry edge found
\* received
Bump(c) == IF c \in {"never", "due"} THEN "once" ELSE "again"

VARIABLES
    emu,                \* the emulator: "off", or the game it runs
    menu, stage,        \* the shorts at MENU_STAGE_ID_ADDR, CURR_STAGE_ID_ADDR + 2
    hooked,             \* dolphin_memory_engine.is_hooked()
    dolphin_status,     \* ctx.dolphin_status
    transitioned,       \* ctx.transitioned
    transitioned_time,  \* time.time() - ctx.transitioned_time, up to the window
    slot,               \* ctx.slot is not None
    items_received,     \* ctx.items_received (item ids, in server order)
    serverItems,        \* the session layer's list of this slot's items
    watcher_event,      \* ctx.watcher_event
    exit_event,         \* ctx.exit_event
    pc, timer,          \* dolphin_sync_task: where it is suspended, seconds left
    tasks,              \* the give_items tasks started by Utils.async_start (a bag)
    applied,            \* per item: times it was written to game memory, for a
                        \* permanent item since the last entry edge
    last_package,       \* the ReceivedItems package on_package saw since the sync
                        \* task last woke: "all" (the whole list), "new", "none"
    since_failed,       \* seconds since the last connection attempt, if it
                        \* failed (-1 otherwise)
    di,                 \* a DolphinInterface object, and what its caller saw
    boxes,              \* the checklist byte of every location, in game memory
    locations_checked,  \* ctx.locations_checked
    goal,               \* ctx.goal
    goal_checklist_amount,  \* ctx.goal_checklist_amount
    finished_game,      \* ctx.finished_game
    victories,          \* StatusUpdate CLIENT_GOAL messages sent: "never", "once",
                        \* "again"
    death_link,         \* "DeathLink" in ctx.tags
    since_death,        \* time.time() - ctx.last_death_link, up to the cooldown
                        \* (-1 until DeathLink is first enabled: the stamp is
                        \* not read before)
    health,             \* the float at PLAYER_1_CURRENT_HP_ADDRESS
    deaths,             \* death notices sent: "never", "once", "again"
    adapter,            \* the memory behind one direct address and one
                        \* pointer, and the last call of a read or write
                        \* helper with what it gave its caller
    patches,            \* the nine patch stats of the player, as written
                        \* through the helpers of KARClient and through a
                        \* DolphinInterface, and the items applied so far
    world               \* the KARWorld of a generation: its options, the
                        \* sets it keeps, its locked items and its items in
                        \* multiworld.itempool

vars == <<emu, menu, stage, hooked, dolphin_status, transitioned,
          transitioned_time, slot, items_received, serverItems, watcher_event,
          exit_event, pc, timer, tasks, applied, last_package,
          since_failed, di, boxes, locations_checked, goal,
          goal_checklist_amount, finished_game, victories, death_link,
          since_death, health, deaths, adapter, patches, world>>

envVars == <<emu, menu, stage>>
ctxVars == <<dolphin_status, transitioned, transitioned_time>>
sessVars == <<slot, items_received, serverItems>>
loopVars == <<pc, timer>>
locVars == <<boxes, locations_checked, goal, goal_checklist_amount,
             finished_game, victories>>
deathVars == <<death_link, since_death, health, deaths>>
memVars == <<adapter, patches>>

(* --------------------------- memory probe ----------------------------- *)
\* dolphin_memory_engine.read_* raises RuntimeError unless it is hooked to a
\* running emulator
Readable == hooked /\ emu # "off"

\* KARContext.check_ingame_city_trial, on a readable memory
check_ingame_city_trial ==
    /\ menu = CITY_TRIAL_MENU_SELECTION
    /\ stage = CITY_TRIAL_STAGE_ID

\* handle_connected_state's test before the death check:
\* time.time() >= ctx.transitioned_time + 6
DebounceElapsed == transitioned_time >= TRANSITION_WAIT

(* ----------------------- give_items / give_item ----------------------- *)
\* the first test of give_item: it returns False, and the caller sleeps and
\* retries, exactly when this is false
GiveItemGate ==
    check_ingame_city_trial \/ transitioned_time < TRANSITION_WAIT

\* the list a give_items task iterates: check_transitioned passes
\* ctx.items_received itself, so that task sees later appends until the
\* session layer replaces the list object
TaskItems(t) == IF t.live THEN items_received ELSE t.items

\* the items of a task for which LOOKUP_ID_TO_NAME[item.item] raises
\* KeyError: the exception ends the task when the for loop comes to the first
\* of them
Unknown(t) ==
    { k \in t.pos..Len(TaskItems(t)) : TaskItems(t)[k] \notin ItemIds }

\* the items that the for loop of give_items comes to
Reached(t) ==
    { k \in t.pos..Len(TaskItems(t)) : \A j \in Unknown(t) : k < j }

\* give_items calls give_item for every item it comes to, or, with
\* permanent_only, for those whose name contains "Permanent"
Wanted(t) ==
    { k \in Reached(t) :
        /\ TaskItems(t)[k] \in ItemIds
        /\ ~t.perm \/ IsPermanentName(TaskItems(t)[k]) }

\* position of a task's k-th item in the session layer's list
Ix(t, k) == t.base + k

NewTask(items, base, live, perm) ==
    [items |-> items, base |-> base, live |-> live, perm |-> perm,
     pos |-> 1, asleep |-> FALSE]

Started(t) == SetToBag({t})

\* copies in the bag B of the tasks in S
RECURSIVE Copies(_, _)
Copies(B, S) ==
    IF S = {} THEN 0
    ELSE LET t == CHOOSE x \in S : TRUE
         IN  CopiesIn(t, B) + Copies(B, S \ {t})

Frozen(t) ==
    IF t.live THEN [t EXCEPT !.live = FALSE, !.items = items_received] ELSE t

\* the session layer assigns a new list to ctx.items_received: tasks that
\* iterate the old list keep it
Detach(B) ==
    LET S == BagToSet(B)
    IN  [u \in { Frozen(t) : t \in S } |->
            Copies(B, { t \in S : Frozen(t) = u })]

Awake(t) == [t EXCEPT !.asleep = FALSE]

\* asyncio.sleep(1) of every sleeping give_items task is over
WakeAll(B) ==
    LET S == BagToSet(B)
    IN  [u \in { Awake(t) : t \in S } |->
            Copies(B, { t \in S : Awake(t) = u })]

\* the for loop has no item left to give, or comes to an item without a
\* name: the task ends
TaskEnds(t) ==
    /\ pc # "done"
    /\ ~t.asleep
    /\ Wanted(t) = {}
    /\ tasks' = tasks (-) Started(t)
    /\ UNCHANGED <<envVars, hooked, ctxVars, sessVars, watcher_event,
                   exit_event, loopVars, applied, last_package,
                   since_failed, di, locVars, deathVars, memVars, world>>

\* give_item reads memory first: unhooked or without emulator the read raises,
\* the exception ends the task and the items it still held are dropped
TaskFaults(t) ==
    /\ pc # "done"
    /\ ~t.asleep
    /\ Wanted(t) # {}
    /\ ~Readable
    /\ tasks' = tasks (-) Started(t)
    /\ UNCHANGED <<envVars, hooked, ctxVars, sessVars, watcher_event,
                   exit_event, loopVars, applied, last_package,
                   since_failed, di, locVars, deathVars, memVars, world>>

\* give_item returns False: the task sleeps one second on that item
TaskSleeps(t) ==
    /\ pc # "done"
    /\ ~t.asleep
    /\ Wanted(t) # {}
    /\ Readable
    /\ ~GiveItemGate
    /\ tasks' = (tasks (-) Started(t))
                    (+) Started([t EXCEPT !.pos = Min(Wanted(t)), !.asleep = TRUE])
    /\ UNCHANGED <<envVars, hooked, ctxVars, sessVars, watcher_event,
                   exit_event, loopVars, applied, last_package,
                   since_failed, di, locVars, deathVars, memVars, world>>

\* give_item returns True for every remaining item without suspending: all
\* of them are written to game memory in this one run, which ends with the
\* list or at the first item without a name
TaskApplies(t) ==
    /\ pc # "done"
    /\ ~t.asleep
    /\ Wanted(t) # {}
    /\ Readable
    /\ GiveItemGate
    /\ LET ixs == { Ix(t, k) : k \in Wanted(t) }
       IN  /\ applied' = [x \in 1..MaxItems |->
                            IF x \in ixs THEN Bump(applied[x]) ELSE applied[x]]
    /\ tasks' = tasks (-) Started(t)
    /\ UNCHANGED <<envVars, hooked, ctxVars, sessVars, watcher_event,
                   exit_event, loopVars, last_package, since_failed, di,
                   locVars, deathVars, memVars, world>>

\* variant of the failing write in which the task sleeps and tries the item
\* again
TaskWriteFaultsRetries(t, k) ==
    /\ pc # "done"
    /\ ~t.asleep
    /\ k \in Wanted(t)
    /\ Readable
    /\ GiveItemGate
    /\ LET ixs == { Ix(t, j) : j \in { i \in Wanted(t) : i < k } }
       IN  applied' = [x \in 1..MaxItems |->
                          IF x \in ixs THEN Bump(applied[x]) ELSE applied[x]]
    /\ emu' = "off" /\ menu' = 0 /\ stage' = 0
    /\ tasks' = (tasks (-) Started(t))
                    (+) Started([t EXCEPT !.pos = k, !.asleep = TRUE])
    /\ UNCHANGED <<hooked, ctxVars, sessVars, watcher_event, exit_event,
                   loopVars, last_package, since_failed, di, locVars,
                   deathVars, memVars, world>>

\* the emulator goes away while give_item applies item k of the task: the
\* items before it are written, read_float or write_float of
\* increment_player_patch raises RuntimeError, and the exception ends the
\* task with item k and the items after it unwritten
TaskWriteFaults(t, k) ==
    /\ pc # "done"
    /\ ~t.asleep
    /\ k \in Wanted(t)
    /\ Readable
    /\ GiveItemGate
    /\ LET ixs == { Ix(t, j) : j \in { i \in Wanted(t) : i < k } }
       IN  applied' = [x \in 1..MaxItems |->
                          IF x \in ixs THEN Bump(applied[x]) ELSE applied[x]]
    /\ emu' = "off" /\ menu' = 0 /\ stage' = 0
    /\ tasks' = tasks (-) Started(t)
    /\ UNCHANGED <<hooked, ctxVars, sessVars, watcher_event, exit_event,
                   loopVars, last_package, since_failed, di, locVars,
                   deathVars, memVars, world>>

(* -------------------------- check_transitioned ------------------------ *)
\* the false -> true edge of check_transitioned
EdgeIn == check_ingame_city_trial /\ ~transitioned

\* the true -> false edge of check_transitioned
EdgeOut == ~check_ingame_city_trial /\ transitioned

\* variant of check_transitioned that starts no task
EdgeTasksNone == EmptyBag

\* the task check_transitioned starts on the entry edge:
\* Utils.async_start(self.give_items(self.items_received, True))
EdgeTasks ==
    IF EdgeIn THEN Started(NewTask(<<>>, 0, TRUE, TRUE)) ELSE EmptyBag

PermanentReceived ==
    { x \in 1..Len(items_received) : IsPermanentName(items_received[x]) }

\* KARContext.check_transitioned, on a readable memory
CheckTransitioned ==
    /\ transitioned' = (IF EdgeIn THEN TRUE
                        ELSE IF EdgeOut THEN FALSE ELSE transitioned)
    /\ transitioned_time' = (IF EdgeIn THEN 0 ELSE transitioned_time)
    /\ tasks' = tasks (+) EdgeTasks
    /\ applied' = (IF EdgeIn
                   THEN [x \in 1..MaxItems |->
                            IF x \in PermanentReceived THEN "due" ELSE applied[x]]
                   ELSE applied)

(* -------------------------- send_check_locations ---------------------- *)
\* CITY_TRIAL_LOCATION_TABLE: checklist boxes with a memory address, each
\* named by its code
Locations == 1..MaxLocs

\* ctx.goal: no goal yet, the count goal, or the name of a location (loc 0:
\* a name that is no key of the table)
NoGoal == [kind |-> "none", loc |-> 0]
FillNGoal == [kind |-> "fill_n", loc |-> 0]
LocationGoal(l) == [kind |-> "location", loc |-> l]

\* variant of the test of send_check_locations that takes the visible lock
\* for an open box
checkedVisible(l) == boxes[l] \notin {BOX_LOCKED, BOX_FLAGGED}

\* send_check_locations: read_byte(data.mem_address) not in [0x00, 0x01, 0x10]
checked(l) == boxes[l] \notin {BOX_LOCKED, BOX_FLAGGED, BOX_VISIBLE}

\* variant: a scan that also counts a box flagged for unlocking
SatisfiedUpToFlagged(k) ==
    { l \in 1..k : boxes[l] \notin {BOX_LOCKED, BOX_VISIBLE} }

\* the locations a scan finds checked among the first k of the table
SatisfiedUpTo(k) == { l \in 1..k : checked(l) }

\* variant of the scan that stops before the last location of the table
SatisfiedButLast == SatisfiedUpTo(MaxLocs - 1)

\* the locations a whole scan finds checked
Satisfied == SatisfiedUpTo(MaxLocs)

\* variant of the scan that keeps only what this scan finds checked
AccumulatedNow == Satisfied

\* self.locations_checked after the scan
Accumulated == locations_checked \cup Satisfied

\* `location == self.goal` for a location the scan finds checked
WinByLocation == goal.kind = "location" /\ goal.loc \in Satisfied

\* variant of the count test that does not look at the goal
WinByCountAnyGoal == Cardinality(Accumulated) >= goal_checklist_amount

\* the count goal: len(self.locations_checked) >= self.goal_checklist_amount
WinByCount ==
    /\ goal.kind = "fill_n"
    /\ Cardinality(Accumulated) >= goal_checklist_amount

WinCondition == WinByLocation \/ WinByCount

\* variant of the victory test without the finished_game flag
SendsVictoryAlways == WinCondition

\* send_victory is called: the win condition holds and finished_game is unset
SendsVictory == WinCondition /\ ~finished_game

\* KARContext.send_check_locations, on a readable memory
SendCheckLocations ==
    /\ locations_checked' = Accumulated
    /\ finished_game' = (finished_game \/ WinCondition)
    /\ victories' = (IF SendsVictory THEN Bump(victories) ELSE victories)

\* send_check_locations when the read after the first k locations raises:
\* what the loop did for these k stays, and the count goal was not looked at
ScanFaults(k) ==
    LET won == goal.kind = "location" /\ goal.loc \in SatisfiedUpTo(k)
    IN  /\ locations_checked' = locations_checked \cup SatisfiedUpTo(k)
        /\ finished_game' = (finished_game \/ won)
        /\ victories' = (IF won /\ ~finished_game
                         THEN Bump(victories) ELSE victories)

(* ------------------------------ check_death --------------------------- *)
\* check_alive: read_float(PLAYER_1_CURRENT_HP_ADDRESS) > float(0)
check_alive == health > 0

\* handle_connected_state, after check_transitioned: the death check runs in
\* City Trial, 6 seconds after the entry edge, with DeathLink enabled
DeathCheckRuns ==
    /\ check_ingame_city_trial
    /\ transitioned_time' >= TRANSITION_WAIT
    /\ death_link

\* variant of check_death without the cooldown
CooldownOverAlways == TRUE

\* check_death: time.time() >= self.last_death_link + 120
CooldownOver == since_death >= DEATH_LINK_COOLDOWN

\* variant of check_death that does not look at the health
PlayerDeadAlways == TRUE

\* check_death: not check_alive()
PlayerDead == ~check_alive

\* check_death calls send_death
SendsDeath ==
    /\ DeathCheckRuns
    /\ slot /\ check_ingame_city_trial
    /\ PlayerDead
    /\ CooldownOver

\* the death check of handle_connected_state; send_death stamps
\* ctx.last_death_link
CheckDeath ==
    /\ since_death' = (IF SendsDeath THEN 0 ELSE since_death)
    /\ deaths' = (IF SendsDeath THEN Bump(deaths) ELSE deaths)

(* --------------------------- dolphin_sync_task ------------------------ *)
\* variant of the loop with `while True`
LoopTopForever ==
    /\ pc' = "wait"
    /\ timer' = WAIT_TIMEOUT

\* back at `while not ctx.exit_event.is_set()`: leave, or wait for the event
LoopTop ==
    /\ pc' = (IF exit_event THEN "done" ELSE "wait")
    /\ timer' = (IF exit_event THEN 0 ELSE WAIT_TIMEOUT)

\* variant of the wait without the finally clause
WokenKeepsEvent ==
    /\ pc = "wait"
    /\ watcher_event \/ timer = 0
    /\ watcher_event' = watcher_event
    /\ last_package' = "none"

\* wait_for(ctx.watcher_event.wait(), 1) returns, by the event or the timeout;
\* the finally clause clears the event
Woken ==
    /\ pc = "wait"
    /\ watcher_event \/ timer = 0
    /\ watcher_event' = FALSE
    /\ last_package' = "none"

ConnectedBranch == hooked /\ dolphin_status = CONNECTION_CONNECTED_STATUS

\* variant of the except clause without dolphin_memory_engine.un_hook()
OnExceptionKeepsHook ==
    /\ hooked' = hooked
    /\ dolphin_status' = CONNECTION_LOST_STATUS

\* the except clause of the loop body
OnException ==
    /\ hooked' = FALSE
    /\ dolphin_status' = CONNECTION_LOST_STATUS

\* handle_connected_state with no slot: nothing is read
TickNoSlot ==
    /\ Woken
    /\ ConnectedBranch
    /\ ~slot
    /\ LoopTop
    /\ UNCHANGED <<envVars, hooked, ctxVars, sessVars, exit_event, tasks,
                   applied, since_failed, di, locVars, deathVars, memVars, world>>

\* handle_connected_state: check_transitioned, the death-check guard and the
\* location scan all read memory and none of them raises
TickRuns ==
    /\ Woken
    /\ ConnectedBranch
    /\ slot
    /\ emu # "off"
    /\ CheckTransitioned
    /\ CheckDeath
    /\ SendCheckLocations
    /\ LoopTop
    /\ UNCHANGED <<envVars, hooked, dolphin_status, sessVars, exit_event,
                   since_failed, di, boxes, goal, goal_checklist_amount,
                   death_link, health, memVars, world>>

\* the first read of the tick raises: nothing was done before the fault
TickFaultsFirst ==
    /\ Woken
    /\ ConnectedBranch
    /\ slot
    /\ emu = "off"
    /\ OnException
    /\ LoopTop
    /\ UNCHANGED <<envVars, transitioned, transitioned_time, sessVars,
                   exit_event, tasks, applied, since_failed, di,
                   locVars, deathVars, memVars, world>>

\* the emulator goes away after check_transitioned: a later read of the tick
\* raises and what check_transitioned did stays
\* died: the death check was done before the fault; k: the locations
\* that the scan read before the fault
TickFaultsLaterAt(died, k) ==
    /\ Woken
    /\ ConnectedBranch
    /\ slot
    /\ emu # "off"
    /\ CheckTransitioned
    /\ IF died THEN CheckDeath ELSE UNCHANGED <<since_death, deaths>>
    /\ ScanFaults(k)
    /\ emu' = "off" /\ menu' = 0 /\ stage' = 0
    /\ OnException
    /\ LoopTop
    /\ UNCHANGED <<sessVars, exit_event, since_failed, di, boxes, goal,
                   goal_checklist_amount, death_link, health, memVars, world>>

TickFaultsLater ==
    \E died \in BOOLEAN, k \in 0..(MaxLocs - 1) :
        /\ died \/ k = 0
        /\ TickFaultsLaterAt(died, k)

\* check_game_running, on a readable memory:
\* read_bytes(0x80000000, 6) == b"GKYE01"
check_game_running == emu = "kar"

\* a connection attempt is made
Attempted(failed) == IF failed THEN 0 ELSE -1

\* handle_disconnected_state, attempt_dolphin_connection: hook() finds no
\* emulator
AttemptNoHook ==
    /\ Woken
    /\ ~ConnectedBranch
    /\ emu = "off"
    /\ hooked' = FALSE
    /\ dolphin_status' = CONNECTION_LOST_STATUS
    /\ pc' = "sleep" /\ timer' = RECONNECT_DELAY
    /\ since_failed' = Attempted(TRUE)
    /\ UNCHANGED <<envVars, transitioned, transitioned_time, sessVars,
                   exit_event, tasks, applied, di, locVars, deathVars,
                   memVars, world>>

\* variant of the refusal that reports the connection as made
AttemptRefusedAsConnected ==
    /\ Woken
    /\ ~ConnectedBranch
    /\ emu # "off"
    /\ ~check_game_running
    /\ hooked' = FALSE
    /\ dolphin_status' = CONNECTION_CONNECTED_STATUS
    /\ pc' = "sleep" /\ timer' = RECONNECT_DELAY
    /\ since_failed' = Attempted(TRUE)
    /\ UNCHANGED <<envVars, transitioned, transitioned_time, sessVars,
                   exit_event, tasks, applied, di, locVars, deathVars,
                   memVars, world>>

\* hook() succeeds and the game identifier is of another game
AttemptRefused ==
    /\ Woken
    /\ ~ConnectedBranch
    /\ emu # "off"
    /\ ~check_game_running
    /\ hooked' = FALSE
    /\ dolphin_status' = CONNECTION_REFUSED_GAME_STATUS
    /\ pc' = "sleep" /\ timer' = RECONNECT_DELAY
    /\ since_failed' = Attempted(TRUE)
    /\ UNCHANGED <<envVars, transitioned, transitioned_time, sessVars,
                   exit_event, tasks, applied, di, locVars, deathVars,
                   memVars, world>>

\* hook() succeeds and the emulator goes away before check_game_running
\* reads the identifier: the read raises into the except clause of the loop
AttemptFaults ==
    /\ Woken
    /\ ~ConnectedBranch
    /\ emu # "off"
    /\ emu' = "off" /\ menu' = 0 /\ stage' = 0
    /\ OnException
    /\ LoopTop
    /\ since_failed' = Attempted(TRUE)
    /\ UNCHANGED <<transitioned, transitioned_time, sessVars, exit_event,
                   tasks, applied, di, locVars, deathVars, memVars, world>>

\* hook() succeeds and the identifier is GKYE01
AttemptConnects ==
    /\ Woken
    /\ ~ConnectedBranch
    /\ emu # "off"
    /\ check_game_running
    /\ hooked' = TRUE
    /\ dolphin_status' = CONNECTION_CONNECTED_STATUS
    /\ LoopTop
    /\ since_failed' = Attempted(FALSE)
    /\ UNCHANGED <<envVars, transitioned, transitioned_time, sessVars,
                   exit_event, tasks, applied, di, locVars, deathVars,
                   memVars, world>>

\* asyncio.sleep(5) of attempt_dolphin_connection is over
SleepDone ==
    /\ pc = "sleep"
    /\ timer = 0
    /\ LoopTop
    /\ UNCHANGED <<envVars, hooked, ctxVars, sessVars, watcher_event,
                   exit_event, tasks, applied, last_package, since_failed, di,
                   locVars, deathVars, memVars, world>>

(* --------------------------- DolphinInterface ------------------------- *)
\* calls of check_transition the caller keeps
MaxCalls == 4

\* DolphinInterface.read_short: a failed read is logged and yields 0
DIReadShort(v) == IF Readable THEN v ELSE 0

\* variant of is_in_city_trial that trusts the menu selection alone
is_in_city_trial_by_menu == DIReadShort(menu) = CITY_TRIAL_MENU_SELECTION

\* DolphinInterface.is_in_city_trial
is_in_city_trial ==
    /\ DIReadShort(menu) = CITY_TRIAL_MENU_SELECTION
    /\ DIReadShort(stage) = CITY_TRIAL_STAGE_ID

\* variant of check_transition that returns the reading
triggerIsReading == is_in_city_trial

\* DolphinInterface.check_transition: the value it returns
trigger == is_in_city_trial /\ ~di.transitioned

\* DolphinInterface.check_transition: self.transitioned after the call
check_transition_state ==
    IF is_in_city_trial /\ ~di.transitioned THEN TRUE
    ELSE IF ~is_in_city_trial /\ di.transitioned THEN FALSE
    ELSE di.transitioned

\* DolphinInterface.check_transition: self.transitioned_time after the call
check_transition_time ==
    IF is_in_city_trial /\ ~di.transitioned THEN 0 ELSE di.transitioned_time

\* variant of transition_waited with a strict comparison
transition_waited_strict == di.transitioned_time > di.transition_wait

\* DolphinInterface.transition_waited:
\* time.time() >= self.transitioned_time + self.transition_wait
transition_waited == di.transitioned_time >= di.transition_wait

Latest(calls) ==
    IF Len(calls) > MaxCalls THEN SubSeq(calls, 2, Len(calls)) ELSE calls

\* one poll: the caller calls check_transition once
DICheckTransition ==
    /\ di' = [di EXCEPT
                !.transitioned = check_transition_state,
                !.transitioned_time = check_transition_time,
                !.calls = Latest(Append(@,
                            [stored |-> di.transitioned,
                             reading |-> is_in_city_trial,
                             returned |-> trigger,
                             after |-> check_transition_state])),
                !.since_edge = IF trigger THEN 0 ELSE @]
    /\ UNCHANGED <<envVars, hooked, ctxVars, sessVars, watcher_event,
                   exit_event, loopVars, tasks, applied, last_package,
                   since_failed, locVars, deathVars, memVars, world>>

\* DolphinInterface.hook
DIHook ==
    /\ hooked' = (emu # "off")
    /\ hooked' # hooked
    /\ UNCHANGED <<envVars, ctxVars, sessVars, watcher_event, exit_event,
                   loopVars, tasks, applied, last_package, since_failed, di,
                   locVars, deathVars, memVars, world>>

\* DolphinInterface.unhook
DIUnhook ==
    /\ hooked
    /\ hooked' = FALSE
    /\ UNCHANGED <<envVars, ctxVars, sessVars, watcher_event, exit_event,
                   loopVars, tasks, applied, last_package, since_failed, di,
                   locVars, deathVars, memVars, world>>

\* one second passes for the DolphinInterface
DIAdvance ==
    /\ di' = [di EXCEPT !.transitioned_time = Tick(@, TRANSITION_WAIT),
                         !.since_edge = Tick(@, TRANSITION_WAIT)]
    /\ UNCHANGED <<envVars, hooked, ctxVars, sessVars, watcher_event,
                   exit_event, loopVars, tasks, applied, last_package,
                   since_failed, locVars, deathVars, memVars, world>>

(* ------------------------------ on_package ---------------------------- *)
\* variant of on_package that starts a task for index 0 as well
OnPackageTasksAnyIndex(index, items) ==
    Started(NewTask(items, index, FALSE, FALSE))

\* KARContext.on_package("ReceivedItems"): the task it starts,
\* Utils.async_start(self.give_items(args["items"], False)), unless index is 0
OnPackageTasks(index, items) ==
    IF index # 0 THEN Started(NewTask(items, index, FALSE, FALSE)) ELSE EmptyBag

\* task slots taken, counting the task the next tick will start for an entry
\* edge it has not seen yet
Reserved == BagCardinality(tasks) + (IF EdgeIn THEN 1 ELSE 0)

Batches == { <<a>> : a \in ItemIds }

\* slot data of a world without DeathLink whose goal names no location of
\* the table
PlainSlotData == [death_link |-> FALSE, goal |-> LocationGoal(0),
                  checklist_amount |-> 1]

\* the slot data a world can carry: fill_slot_data gives goal,
\* checklist_amount and death_link
SlotData ==
    [death_link : BOOLEAN,
     goal : {FillNGoal} \cup { LocationGoal(l) : l \in 0..MaxLocs },
     checklist_amount : 1..MaxLocs]

\* the seconds since ctx.last_death_link when DeathLink is set to `on`: they
\* count from the start of the client, `age` seconds ago, the first time
\* DeathLink is enabled
Stamped(on, age) == IF on /\ since_death = -1 THEN age ELSE since_death

\* variant of the Connected handler that keeps self.locations_checked
ConnectedChecked == locations_checked

\* on_package("Connected"): self.locations_checked.clear()
ConnectedCleared == {}

\* the session layer accepts the connection (ctx.slot is set) and
\* on_package("Connected") takes DeathLink, goal and checklist_amount from the
\* slot data and clears locations_checked.  age: the time since the import
\* of the session client, which is where ctx.last_death_link starts
ConnectedWith(sd, age) ==
    /\ ~slot
    /\ slot' = TRUE
    /\ death_link' = sd.death_link
    /\ since_death' = Stamped(sd.death_link, age)
    /\ goal' = sd.goal
    /\ goal_checklist_amount' = sd.checklist_amount
    /\ locations_checked' = ConnectedCleared
    /\ UNCHANGED <<envVars, hooked, ctxVars, items_received, serverItems,
                   watcher_event, exit_event, loopVars, tasks, applied,
                   last_package, since_failed, di, boxes, finished_game,
                   victories, health, deaths, memVars, world>>

\* the connection to a world without DeathLink and without a reachable goal
Connected == ConnectedWith(PlainSlotData, 0)

\* ReceivedItems with the whole list from index 0, after a (re)connect: the
\* session client replaces ctx.items_received, sets the watcher event and
\* calls on_package
ReceivedItemsAll ==
    /\ slot
    /\ serverItems # <<>>
    /\ Reserved < MaxTasks
    /\ items_received' = serverItems
    /\ tasks' = Detach(tasks) (+) OnPackageTasks(0, serverItems)
    /\ watcher_event' = TRUE
    /\ last_package' = "all"
    /\ UNCHANGED <<envVars, hooked, ctxVars, slot, serverItems, exit_event,
                   loopVars, applied, since_failed, di, locVars, deathVars,
                   memVars, world>>

\* ReceivedItems with new items from the index the client has reached: the
\* session client appends them to ctx.items_received (for index 0, to a new
\* list it assigns to ctx.items_received), sets the watcher event and calls
\* on_package
ReceivedItemsNew(batch) ==
    /\ slot
    /\ items_received = serverItems
    /\ Len(serverItems) + Len(batch) <= MaxItems
    /\ Reserved < MaxTasks
    /\ serverItems' = serverItems \o batch
    /\ items_received' = items_received \o batch
    /\ tasks' = (IF Len(items_received) = 0 THEN Detach(tasks) ELSE tasks)
                    (+) OnPackageTasks(Len(items_received), batch)
    /\ watcher_event' = TRUE
    /\ last_package' = "new"
    /\ UNCHANGED <<envVars, hooked, ctxVars, slot, exit_event, loopVars,
                   applied, since_failed, di, locVars, deathVars, memVars, world>>

\* the slot is sent items while this client has no session
ServerCollects(batch) ==
    /\ ~slot
    /\ Len(serverItems) + Len(batch) <= MaxItems
    /\ serverItems' = serverItems \o batch
    /\ UNCHANGED <<envVars, hooked, ctxVars, slot, items_received,
                   watcher_event, exit_event, loopVars, tasks, applied,
                   last_package, since_failed, di, locVars, deathVars,
                   memVars, world>>

\* the session is lost: the session client resets slot and items_received
SessionLost ==
    /\ slot
    /\ slot' = FALSE
    /\ items_received' = <<>>
    /\ tasks' = Detach(tasks)
    /\ UNCHANGED <<envVars, hooked, ctxVars, serverItems, watcher_event,
                   exit_event, loopVars, applied, last_package,
                   since_failed, di, locVars, deathVars, memVars, world>>

\* on_deathlink: the session client stamps ctx.last_death_link with the
\* time of the bounce; give_death writes the machine HP, and the health of
\* the player is the game's to change
OnDeathLink ==
    /\ slot /\ death_link
    /\ since_death' = 0
    /\ UNCHANGED <<envVars, hooked, ctxVars, sessVars, watcher_event,
                   exit_event, loopVars, tasks, applied, last_package,
                   since_failed, di, locVars, death_link, health, deaths,
                   memVars, world>>

\* KARCommandProcessor._cmd_deathlink: the command toggles DeathLink
CmdDeathlink(age) ==
    /\ death_link' = ~death_link
    /\ since_death' = Stamped(~death_link, age)
    /\ UNCHANGED <<envVars, hooked, ctxVars, sessVars, watcher_event,
                   exit_event, loopVars, tasks, applied, last_package,
                   since_failed, di, locVars, health, deaths, memVars, world>>

(* ----------------------------- environment ---------------------------- *)
Games == {"kar", "other"}
\* the bytes of a checklist box: locked, flagged, locked but visible, any other
BoxValues == {BOX_LOCKED, BOX_FLAGGED, BOX_VISIBLE, BOX_VISIBLE + BOX_FLAGGED}
\* the health of the player: below zero, zero, above zero
HealthValues == {-1, 0, 1}
\* seconds between the start of the client and the first session with
\* DeathLink, up to the cooldown
Ages == {0, DEATH_LINK_COOLDOWN}
MenuValues == {0, CITY_TRIAL_MENU_SELECTION}
StageValues == {0, CITY_TRIAL_STAGE_ID}

EmuStarts(g) ==
    /\ emu = "off"
    /\ emu' = g /\ menu' = 0 /\ stage' = 0
    /\ UNCHANGED <<hooked, ctxVars, sessVars, watcher_event, exit_event,
                   loopVars, tasks, applied, last_package, since_failed, di,
                   locVars, deathVars, memVars, world>>

EmuStops ==
    /\ emu # "off"
    /\ emu' = "off" /\ menu' = 0 /\ stage' = 0
    /\ UNCHANGED <<hooked, ctxVars, sessVars, watcher_event, exit_event,
                   loopVars, tasks, applied, last_package, since_failed, di,
                   locVars, deathVars, memVars, world>>

\* the game changes the menu selection or the current stage
GameMoves(m, s) ==
    /\ emu # "off"
    /\ <<m, s>> # <<menu, stage>>
    /\ m = menu \/ s = stage
    /\ (m = CITY_TRIAL_MENU_SELECTION /\ s = CITY_TRIAL_STAGE_ID /\ ~transitioned)
          => BagCardinality(tasks) < MaxTasks
    /\ menu' = m /\ stage' = s
    /\ UNCHANGED <<emu, hooked, ctxVars, sessVars, watcher_event,
                   exit_event, loopVars, tasks, applied, last_package,
                   since_failed, di, locVars, deathVars, memVars, world>>

\* the game changes the checklist byte of a location
BoxMoves(l, v) ==
    /\ emu # "off"
    /\ v # boxes[l]
    /\ boxes' = [boxes EXCEPT ![l] = v]
    /\ UNCHANGED <<envVars, hooked, ctxVars, sessVars, watcher_event,
                   exit_event, loopVars, tasks, applied, last_package,
                   since_failed, di, locations_checked, goal,
                   goal_checklist_amount, finished_game, victories,
                   deathVars, memVars, world>>

\* the game changes the health of the player
HealthMoves(h) ==
    /\ emu # "off"
    /\ h # health
    /\ health' = h
    /\ UNCHANGED <<envVars, hooked, ctxVars, sessVars, watcher_event,
                   exit_event, loopVars, tasks, applied, last_package,
                   since_failed, di, locVars, death_link, since_death,
                   deaths, memVars, world>>

\* one second passes: timeouts and sleeps run down
Advance ==
    /\ transitioned_time' = Tick(transitioned_time, TRANSITION_WAIT)
    /\ timer' = (IF timer > 0 THEN timer - 1 ELSE 0)
    /\ tasks' = WakeAll(tasks)
    /\ since_failed' = Tick(since_failed, RECONNECT_DELAY)
    /\ since_death' = Tick(since_death, DEATH_LINK_COOLDOWN)
    /\ UNCHANGED <<envVars, hooked, dolphin_status, transitioned, sessVars,
                   watcher_event, exit_event, pc, applied, last_package, di,
                   locVars, death_link, health, deaths, memVars, world>>

\* main._main: exit_event is set and the watcher event wakes the sync task
Shutdown ==
    /\ ~exit_event
    /\ exit_event' = TRUE
    /\ watcher_event' = TRUE
    /\ UNCHANGED <<envVars, hooked, ctxVars, sessVars, loopVars, tasks,
                   applied, last_package, since_failed, di,
                   locVars, deathVars, memVars, world>>

(* ---------------------- memory read and write helpers ----------------- *)
(* ------------------------------ patch items --------------------------- *)
\* DolphinInterface.PatchType, in the order of the enum, which is also the
\* order of the if/elif chain of KARClient.increment_player_patch
PatchTypes == <<"Turn", "Boost", "Charge", "Defense", "Glide", "HP",
                "Weight", "Offense", "Top Speed", "All">>

\* the nine stats of DolphinInterface.PATCH_ADDRESS_MAP
PatchStats == { PatchTypes[k] : k \in 1..9 }

\* the words of the value of a patch type
Words(t) == IF t = "Top Speed" THEN <<"Top", "Speed">> ELSE <<t>>

\* Items.ITEM_TABLE, the items of type "Patch": an Up and a Down item and a
\* permanent Up item for each stat, and "All Up"
PatchItems ==
    UNION { { Words(t) \o <<"Up">>,
              Words(t) \o <<"Down">>,
              Words(t) \o <<"Up", ":", "Permanent", "+1">> } : t \in PatchStats }
    \cup { <<"All", "Up">> }

\* the largest magnitude up to which every integer is a 4-byte float
FLOAT_EXACT == 2^24

\* write_float stores a 4-byte float: an integer up to 2^24 is kept, and up
\* to 2^25 it is rounded to the nearest even integer, a tie to the multiple
\* of 4
Round32(x) ==
    IF x \in (0 - FLOAT_EXACT)..FLOAT_EXACT \/ x % 2 = 0 THEN x
    ELSE IF (x + 1) % 4 = 0 THEN x + 1 ELSE x - 1

\* read_float of the stat, then write_float of current + delta
Incremented(stats, t, delta) ==
    [stats EXCEPT ![t] = Round32(stats[t] + delta)]

\* the patch types whose value is in the name, by their place in the order
Hits(name) == { k \in 1..Len(PatchTypes) : Contains(name, Words(PatchTypes[k])) }

\* DolphinInterface.get_patch_type_from_item_name: the first patch type of
\* the enum whose value is in the name, or None
get_patch_type_from_item_name(name) ==
    IF Hits(name) = {} THEN "None" ELSE PatchTypes[Min(Hits(name))]

\* variant of the "All" branch that leaves the turn stat alone
AllBranchButTurn(stats, delta) ==
    [t \in PatchStats |->
        IF t = "Turn" THEN stats[t] ELSE Round32(stats[t] + delta)]

\* the "All" branch of increment_player_patch: each of the nine stats is read
\* and written once
AllBranch(stats, delta) ==
    [t \in PatchStats |-> Round32(stats[t] + delta)]

\* KARClient.increment_player_patch: the first branch of the if/elif chain
\* whose word is in the name
increment_player_patch(stats, name, delta) ==
    IF Hits(name) = {} THEN stats
    ELSE LET t == PatchTypes[Min(Hits(name))]
         IN  IF t = "All" THEN AllBranch(stats, delta)
             ELSE Incremented(stats, t, delta)

\* DolphinInterface.increment_player_patch
DI_increment_player_patch(stats, name, delta) ==
    LET t == get_patch_type_from_item_name(name)
    IN  IF t = "None" THEN stats
        ELSE IF t = "All" THEN AllBranch(stats, delta)
        ELSE Incremented(stats, t, delta)

\* the increment of the given adapter
Increment(api, stats, name, delta) ==
    IF api = "kar" THEN increment_player_patch(stats, name, delta)
    ELSE DI_increment_player_patch(stats, name, delta)

\* variant of the patch branch of give_item that ignores "Down"
give_item_patch_up_only(api, stats, name) ==
    IF Contains(name, <<"Up">>) THEN Increment(api, stats, name, 1) ELSE stats

\* give_item, the branch of a "Patch" item: +1 if "Up" is in the name, and
\* then -1 if "Down" is in the name
give_item_patch(api, stats, name) ==
    LET up == IF Contains(name, <<"Up">>)
              THEN Increment(api, stats, name, 1) ELSE stats
    IN  IF Contains(name, <<"Down">>)
        THEN Increment(api, up, name, 0 - 1) ELSE up

\* every stat at v, written through `api`, and no item applied yet
PatchesInit(api, v) ==
    [api |-> api, start |-> v, stats |-> [t \in PatchStats |-> v], log |-> <<>>]

\* the values a patch stat starts from
StartValues == {0 - 1, 0, 1}

\* a patch item is given to the player in City Trial, on a readable memory
GivePatchItem(name) ==
    /\ Len(patches.log) < MaxSeq
    /\ patches' = [patches EXCEPT
                       !.stats = give_item_patch(patches.api, @, name),
                       !.log = Append(@, name)]
    /\ UNCHANGED <<envVars, hooked, ctxVars, sessVars, watcher_event,
                   exit_event, loopVars, tasks, applied, last_package,
                   since_failed, di, locVars, deathVars, adapter, world>>

\* the names that ITEM_TABLE.update adds from the rewards of
\* CITY_TRIAL_LOCATION_TABLE: a plain one, and one that holds the words of a
\* patch item
RewardItems == {<<"Reward">>, <<"All", "Up", "Reward">>}

\* variant of the item table in which every item is of type "Patch"
ItemTypeAllPatch(name) == "Patch"

\* ITEM_TABLE[item_name].type: the update of the table overrides the type of
\* a name it adds
ItemType(name) ==
    IF name \in RewardItems THEN "Checkbox Reward" ELSE "Patch"

\* give_item past its gate: the branch of "Patch" increments, the branches
\* of "Checkbox Reward" and "Progressive Stadium" are `pass`, and no type of
\* the table contains "Effect"
give_item(api, stats, name) ==
    IF ItemType(name) = "Patch" THEN give_item_patch(api, stats, name)
    ELSE stats

\* an item of the table is given to the player in City Trial, on a readable
\* memory
GiveItem(name) ==
    /\ Len(patches.log) < MaxSeq
    /\ patches' = [patches EXCEPT
                       !.stats = give_item(patches.api, @, name),
                       !.log = Append(@, name)]
    /\ UNCHANGED <<envVars, hooked, ctxVars, sessVars, watcher_event,
                   exit_event, loopVars, tasks, applied, last_package,
                   since_failed, di, locVars, deathVars, adapter, world>>

\* dolphin_memory_engine reads and writes a direct address when it is hooked
\* to a running emulator, and raises RuntimeError otherwise
Attached == hooked /\ emu # "off"

\* dolphin_memory_engine.follow_pointers gives the address behind the
\* pointer, and raises RuntimeError when there is none
Resolves == Attached /\ adapter.resolves

\* what a helper gives its caller: a number, a byte run, the empty byte run
\* b"", True, False, None, or an exception
Value(v) == [kind |-> "value", value |-> v]
Bytes(v) == [kind |-> "bytes", value |-> v]
Empty == [kind |-> "empty", value |-> 0]
True == [kind |-> "true", value |-> 0]
False == [kind |-> "false", value |-> 0]
None == [kind |-> "none", value |-> 0]
Raised == [kind |-> "raised", value |-> 0]

\* the values that the helpers write
MemValues == {0, 1}

NoCall == [api |-> "none", op |-> "none", attached |-> FALSE,
           resolved |-> FALSE, result |-> None, wrote |-> FALSE]

\* no pointer, zeroes in memory, no call yet
AdapterInit == [resolves |-> FALSE, cell |-> 0, target |-> 0, call |-> NoCall]

\* a helper of `api` ("di": a DolphinInterface, "kar": the functions of
\* KARClient) is called and gives `res`; the memory at the direct address and
\* behind the pointer is `cell` and `target` afterwards
Called(api, op, res, cell, target) ==
    /\ adapter' = [adapter EXCEPT
                       !.cell = cell,
                       !.target = target,
                       !.call = [api |-> api, op |-> op,
                                 attached |-> Attached,
                                 resolved |-> Resolves,
                                 result |-> res,
                                 wrote |-> (cell # adapter.cell
                                            \/ target # adapter.target)]]
    /\ UNCHANGED <<envVars, hooked, ctxVars, sessVars, watcher_event,
                   exit_event, loopVars, tasks, applied, last_package,
                   since_failed, di, locVars, deathVars, patches, world>>

\* DolphinInterface.read_byte
DI_read_byte ==
    Called("di", "read_byte",
           IF Attached THEN Value(adapter.cell) ELSE Value(0),
           adapter.cell, adapter.target)

\* DolphinInterface.read_bytes
DI_read_bytes ==
    Called("di", "read_bytes",
           IF Attached THEN Bytes(adapter.cell) ELSE Empty,
           adapter.cell, adapter.target)

\* DolphinInterface.read_short
DI_read_short ==
    Called("di", "read_short",
           IF Attached THEN Value(adapter.cell) ELSE Value(0),
           adapter.cell, adapter.target)

\* DolphinInterface.read_float
DI_read_float ==
    Called("di", "read_float",
           IF Attached THEN Value(adapter.cell) ELSE Value(0),
           adapter.cell, adapter.target)

\* DolphinInterface.write_short
DI_write_short(v) ==
    Called("di", "write_short",
           IF Attached THEN True ELSE False,
           IF Attached THEN v ELSE adapter.cell, adapter.target)

\* DolphinInterface.write_float
DI_write_float(v) ==
    Called("di", "write_float",
           IF Attached THEN True ELSE False,
           IF Attached THEN v ELSE adapter.cell, adapter.target)

\* DolphinInterface.read_pointer: None when follow_pointers raises
DI_read_pointer ==
    Called("di", "read_pointer",
           IF Resolves THEN Bytes(adapter.target) ELSE None,
           adapter.cell, adapter.target)

\* DolphinInterface.write_pointer_byte
DI_write_pointer_byte(v) ==
    Called("di", "write_pointer_byte",
           IF Resolves THEN True ELSE False,
           adapter.cell, IF Resolves THEN v ELSE adapter.target)

\* DolphinInterface.write_pointer_float
DI_write_pointer_float(v) ==
    Called("di", "write_pointer_float",
           IF Resolves THEN True ELSE False,
           adapter.cell, IF Resolves THEN v ELSE adapter.target)

\* KARClient.read_byte: the call of dolphin_memory_engine, unguarded
read_byte ==
    Called("kar", "read_byte",
           IF Attached THEN Value(adapter.cell) ELSE Raised,
           adapter.cell, adapter.target)

\* KARClient.read_short
read_short ==
    Called("kar", "read_short",
           IF Attached THEN Value(adapter.cell) ELSE Raised,
           adapter.cell, adapter.target)

\* KARClient.read_float
read_float ==
    Called("kar", "read_float",
           IF Attached THEN Value(adapter.cell) ELSE Raised,
           adapter.cell, adapter.target)

\* KARClient.write_short: returns None
write_short(v) ==
    Called("kar", "write_short",
           IF Attached THEN None ELSE Raised,
           IF Attached THEN v ELSE adapter.cell, adapter.target)

\* KARClient.write_float: returns None
write_float(v) ==
    Called("kar", "write_float",
           IF Attached THEN None ELSE Raised,
           IF Attached THEN v ELSE adapter.cell, adapter.target)

\* KARClient.read_pointer: None when follow_pointers raises RuntimeError
read_pointer ==
    Called("kar", "read_pointer",
           IF Resolves THEN Bytes(adapter.target) ELSE None,
           adapter.cell, adapter.target)

\* KARClient.write_pointer: None when follow_pointers raises RuntimeError,
\* and the None of write_bytes otherwise
write_pointer(v) ==
    Called("kar", "write_pointer", None,
           adapter.cell, IF Resolves THEN v ELSE adapter.target)

\* the game sets or drops the pointer
PointerMoves ==
    /\ emu # "off"
    /\ adapter' = [adapter EXCEPT !.resolves = ~adapter.resolves]
    /\ UNCHANGED <<envVars, hooked, ctxVars, sessVars, watcher_event,
                   exit_event, loopVars, tasks, applied, last_package,
                   since_failed, di, locVars, deathVars, patches, world>>

\* the special-effect items that apply_effect_item knows
EffectItems == {"1 HP", "Full Heal"}

\* what a read of PLAYER_1_CURRENT_MAX_HP_ADDRESS observes on a running game
MaxHpValues == {1, 2}

\* DolphinInterface.apply_effect_item: both items write a float behind the
\* pointer at PLAYER_1_CURRENT_MACHINE_HP_ADDRESS; "Full Heal" writes what
\* read_float gives for the maximum, 0 when the read fails.  `cell` is the
\* pointer cell and `target` the health behind it
DI_apply_effect_item(name, hp) ==
    LET v == IF name = "1 HP" THEN 1
             ELSE IF Attached THEN hp ELSE 0
    IN  Called("di", "apply_effect_item", None,
               adapter.cell, IF Resolves THEN v ELSE adapter.target)

\* KARClient.apply_effect_item: "1 HP" is a write_float at
\* PLAYER_1_CURRENT_MACHINE_HP_ADDRESS itself, and no other name is handled
apply_effect_item(name) ==
    IF name = "1 HP"
    THEN Called("kar", "apply_effect_item",
                IF Attached THEN None ELSE Raised,
                IF Attached THEN 1 ELSE adapter.cell, adapter.target)
    ELSE Called("kar", "apply_effect_item", None,
                adapter.cell, adapter.target)

\* a call of a helper of a DolphinInterface
DICall ==
    \/ DI_read_byte \/ DI_read_bytes \/ DI_read_short \/ DI_read_float
    \/ DI_read_pointer
    \/ \E v \in MemValues :
           \/ DI_write_short(v) \/ DI_write_float(v)
           \/ DI_write_pointer_byte(v) \/ DI_write_pointer_float(v)

\* a call of a helper function of KARClient
KARCall ==
    \/ read_byte \/ read_short \/ read_float \/ read_pointer
    \/ \E v \in MemValues :
           write_short(v) \/ write_float(v) \/ write_pointer(v)

(* -------------------------- world generation -------------------------- *)
\* the most copies of one item that the item table of the model holds
MaxQuantity == 2

\* item_data.quantity, cut to the bound
Quantity(q) == IF q > MaxQuantity THEN MaxQuantity ELSE q

\* keys of CITY_TRIAL_LOCATION_TABLE: one location of the high-effort list
\* only, one of the high-effort and the Free Run list, one of the Free Run
\* list only, one of the multiplayer list, and one of no list
LocationNames ==
    {"City Trial: break more than 500 boxes!",
     "Free Run: Drive for a total of 10 minutes or more!",
     "Free Run: Change Air Ride Machines 10 times or more!",
     "City Trial: Let time run out while all players are on the rails!",
     "Stadium: DRAG RACE 3 Finish in less than 00:27:00!"}

\* location_data.reward: the name of the checkbox reward, or "None"
LocationReward(l) ==
    IF l = "City Trial: break more than 500 boxes!" THEN <<"Reward">>
    ELSE IF l = "Stadium: DRAG RACE 3 Finish in less than 00:27:00!"
    THEN <<"All", "Up", "Reward">>
    ELSE <<"None">>

\* the three lists of _determine_progress_and_nonprogress_locations
HighEffortList ==
    {"City Trial: break more than 500 boxes!",
     "City Trial: break more than 1000 boxes!",
     "City Trial: pick up a total of over 1000 items!",
     "City Trial: Pick up a total of over 3000 items!",
     "Free Run: Drive for a total of 2 hours or more!",
     "Free Run: Drive for a total of 30 minutes or more!",
     "Free Run: Drive for a total of 10 minutes or more!",
     "In one match, complete both Dragoon and Hydra!"}

MultiplayerList ==
    {"City Trial: Let time run out while all players are on the rails!",
     "City Trial: Have all players simultaneously get off of their machines!",
     "City Trial: Let time run out while all players are off of their machines!"}

FreeRunList ==
    {"Free Run: Drive for a total of 2 hours or more!",
     "Free Run: Drive for a total of 30 minutes or more!",
     "Free Run: Drive for a total of 10 minutes or more!",
     "Free Run: Change Air Ride Machines 10 times or more!"}

\* keys of ITEM_TABLE: a patch, its trap, its permanent patch, "All Up", and
\* the checkbox rewards that the update of the table adds
ItemNames ==
    {<<"Boost", "Up">>, <<"Boost", "Down">>,
     <<"Boost", "Up", ":", "Permanent", "+1">>, <<"All", "Up">>}
        \cup ({ LocationReward(l) : l \in LocationNames } \ {<<"None">>})

\* ITEM_TABLE[name].classification
TableClassification(name) ==
    IF name \in { LocationReward(l) : l \in LocationNames } THEN "progression"
    ELSE IF name = <<"Boost", "Down">> THEN "trap"
    ELSE IF name = <<"Boost", "Up", ":", "Permanent", "+1">> THEN "progression"
    ELSE "useful"

\* ITEM_TABLE[name].quantity
TableQuantity(name) ==
    IF name \in { LocationReward(l) : l \in LocationNames } THEN Quantity(1)
    ELSE IF name \in {<<"Boost", "Up">>, <<"Boost", "Down">>} THEN Quantity(10)
    ELSE Quantity(5)

\* trap_chance: 0, and a chance between the ends of its range
TrapChances == {0, 50}

\* the options of a player that generation reads
Options ==
    [progression_high_effort : BOOLEAN,
     progression_multiplayer : BOOLEAN,
     free_run_progression : BOOLEAN,
     permanent_patches : BOOLEAN,
     permanent_patch_progression : BOOLEAN,
     traps_enabled : BOOLEAN,
     trap_chance : TrapChances,
     checkbox_reward_items : BOOLEAN,
     exclude_locations : SUBSET LocationNames]

\* the defaults of KAROptions
DefaultOptions ==
    [progression_high_effort |-> FALSE,
     progression_multiplayer |-> FALSE,
     free_run_progression |-> FALSE,
     permanent_patches |-> TRUE,
     permanent_patch_progression |-> TRUE,
     traps_enabled |-> FALSE,
     trap_chance |-> 10,
     checkbox_reward_items |-> FALSE,
     exclude_locations |-> {}]

\* KARWorld.__init__; `locked` are the locked items placed on locations,
\* `itempool` is this world's part of multiworld.itempool, `raised` the
\* exception that ended a generation step
KARWorld(o) ==
    [options |-> o,
     phase |-> "new",
     progress_locations |-> {},
     nonprogress_locations |-> {},
     item_classification_overrides |-> {},
     useful_pool |-> {}, filler_pool |-> {}, trap_pool |-> {},
     locked |-> {},
     itempool |-> EmptyBag,
     raised |-> "none"]

\* variant: the first list is consulted whatever its option says
InHighEffortAlways(o, l) == l \in HighEffortList

\* the first condition of the chain
InHighEffort(o, l) == ~o.progression_high_effort /\ l \in HighEffortList

\* the if/elif/else chain over one location
LocationBranch(o, l) ==
    IF InHighEffort(o, l) THEN "nonprogress"
    ELSE IF ~o.progression_multiplayer /\ l \in MultiplayerList
    THEN "nonprogress"
    ELSE IF ~o.free_run_progression /\ l \in FreeRunList
    THEN "nonprogress"
    ELSE "progress"

\* variant: permanent patches are overridden whenever they are enabled
OverrideAsUsefulAlways(o) ==
    IF o.permanent_patches
    THEN { n \in ItemNames : Contains(n, <<"Permanent">>) }
    ELSE {}

\* override_as_useful of _determine_item_classification_overrides
OverrideAsUseful(o) ==
    IF o.permanent_patches /\ ~o.permanent_patch_progression
    THEN { n \in ItemNames : Contains(n, <<"Permanent">>) }
    ELSE {}

\* generate_early: the location sets and the classification overrides
GenerateEarly ==
    /\ world.phase = "new"
    /\ world' = [world EXCEPT
           !.phase = "early",
           !.progress_locations =
               { l \in LocationNames :
                     LocationBranch(world.options, l) = "progress" },
           !.nonprogress_locations =
               { l \in LocationNames :
                     LocationBranch(world.options, l) = "nonprogress" },
           !.item_classification_overrides =
               { <<n, "useful">> : n \in OverrideAsUseful(world.options) }]
    /\ UNCHANGED <<envVars, hooked, ctxVars, sessVars, watcher_event,
                   exit_event, loopVars, tasks, applied, last_package,
                   since_failed, di, locVars, deathVars, memVars>>

\* item_classification_overrides.get(name, ITEM_TABLE[name].classification)
Classification(w, name) ==
    IF \E p \in w.item_classification_overrides : p[1] = name
    THEN (CHOOSE p \in w.item_classification_overrides : p[1] = name)[2]
    ELSE TableClassification(name)

\* create_item
create_item(w, name) ==
    [name |-> name, classification |-> Classification(w, name)]

\* get_locations: the locations that create_regions made
WorldLocations(w) == w.progress_locations \cup w.nonprogress_locations

\* create_regions, as far as locations and locked items go
CreateRegions ==
    /\ world.phase = "early"
    /\ world' = [world EXCEPT
           !.phase = "regions",
           !.locked =
               IF world.options.checkbox_reward_items
               THEN { <<l, create_item(world, LocationReward(l))>> :
                          l \in { x \in LocationNames :
                                      LocationReward(x) # <<"None">> } }
               ELSE {}]
    /\ UNCHANGED <<envVars, hooked, ctxVars, sessVars, watcher_event,
                   exit_event, loopVars, tasks, applied, last_package,
                   since_failed, di, locVars, deathVars, memVars>>

\* location.locked
Locked(w) == { p[1] : p \in w.locked }

\* the items that the loop of create_items does not skip
Considered(o) ==
    { n \in ItemNames :
          /\ ItemType(n) # "Checkbox Reward"
          /\ ~(~o.permanent_patches /\ Contains(n, <<"Permanent">>)) }

\* variant: traps are drawn whenever the chance is positive
TrapsDrawnByChance(o) == o.trap_chance > 0

\* the guard of the trap branch of get_filler_item_name
TrapsDrawn(o) == o.traps_enabled /\ o.trap_chance > 0

\* the names that one call of get_filler_item_name can return: with a chance
\* strictly between 0 and 100 the draw falls on either side
FillerNames(o, traps, others) ==
    IF TrapsDrawn(o) THEN traps \cup others ELSE others

RECURSIVE SumOver(_, _)
\* the sum of f over S
SumOver(f, S) ==
    IF S = {} THEN 0
    ELSE LET x == CHOOSE y \in S : TRUE
         IN  f[x] + SumOver(f, S \ {x})

\* the outcomes of n calls of get_filler_item_name, order put aside
Fills(names, n) ==
    { [x \in { y \in names : f[y] > 0 } |-> f[x]] :
          f \in { g \in [names -> 0..n] : SumOver(g, names) = n } }

\* the items created from a bag of names
Created(w, b) ==
    [it \in { create_item(w, n) : n \in DOMAIN b } |-> b[it.name]]

\* variant: as many progression items as locations is already too many
InsufficientLocationsAtEqual(count, num) == count >= num

\* the test before FillError
InsufficientLocations(count, num) == count > num

\* create_items
CreateItems ==
    /\ world.phase = "regions"
    /\ LET o == world.options
           progression == { n \in Considered(o) :
                                Classification(world, n) = "progression" }
           progression_pool == [n \in progression |-> TableQuantity(n)]
           count == SumOver(progression_pool, progression)
           pooled == [world EXCEPT
               !.useful_pool = @ \cup
                   { n \in Considered(o) : Classification(world, n) = "useful" },
               !.trap_pool = @ \cup
                   { n \in Considered(o) : Classification(world, n) = "trap" },
               !.filler_pool = @ \cup
                   { n \in Considered(o) : Classification(world, n) = "filler" }]
           names == FillerNames(o, pooled.trap_pool,
                                pooled.filler_pool \cup pooled.useful_pool)
           nonexcluded == { l \in WorldLocations(world) :
                                l \notin o.exclude_locations /\ l \notin Locked(world) }
           num == Cardinality(nonexcluded)
           excluded == Cardinality(o.exclude_locations)
       IN  IF InsufficientLocations(count, num)
           THEN world' = [pooled EXCEPT !.phase = "items",
                                        !.raised = "FillError"]
           ELSE \E f \in Fills(names, excluded + num - count) :
                    world' = [pooled EXCEPT
                        !.phase = "items",
                        !.itempool = @ (+) Created(world, progression_pool)
                                       (+) Created(world, f)]
    /\ UNCHANGED <<envVars, hooked, ctxVars, sessVars, watcher_event,
                   exit_event, loopVars, tasks, applied, last_package,
                   since_failed, di, locVars, deathVars, memVars>>

(* ------------------------------ the system ---------------------------- *)
\* DolphinInterface.__init__: transitioned_time is time.time().  `calls` are
\* the last calls of check_transition and `since_edge` the seconds since it
\* last returned True (-1: it never did), as its caller observes them
DIInit == [transitioned |-> FALSE, transitioned_time |-> 0,
           transition_wait |-> TRANSITION_WAIT,
           calls |-> <<>>, since_edge |-> -1]

\* the client after construction
ContextInit ==
    /\ emu = "off" /\ menu = 0 /\ stage = 0
    /\ hooked = FALSE
    /\ dolphin_status = CONNECTION_INITIAL_STATUS
    /\ transitioned = FALSE
    /\ transitioned_time = TRANSITION_WAIT
    /\ slot = FALSE
    /\ items_received = <<>>
    /\ serverItems = <<>>
    /\ watcher_event = FALSE
    /\ exit_event = FALSE
    /\ pc = "wait" /\ timer = WAIT_TIMEOUT
    /\ tasks = EmptyBag
    /\ applied = [x \in 1..MaxItems |-> "never"]
    /\ last_package = "none"
    /\ since_failed = -1
    /\ di = DIInit
    /\ boxes = [l \in Locations |-> BOX_LOCKED]
    /\ locations_checked = {}
    /\ goal = NoGoal
    /\ goal_checklist_amount = 0
    /\ finished_game = FALSE
    /\ victories = "never"
    /\ death_link = FALSE
    /\ since_death = -1
    /\ health = 1
    /\ deaths = "never"
    /\ adapter = AdapterInit
    /\ patches = PatchesInit("kar", 0)

Init == ContextInit /\ world = KARWorld(DefaultOptions)

TaskStep ==
    \E t \in BagToSet(tasks) :
        TaskEnds(t) \/ TaskFaults(t) \/ TaskSleeps(t) \/ TaskApplies(t)

SyncStep ==
    \/ TickNoSlot \/ TickRuns \/ TickFaultsFirst \/ TickFaultsLater
    \/ AttemptNoHook \/ AttemptRefused \/ AttemptFaults \/ AttemptConnects
    \/ SleepDone

SessionStep ==
    \/ \E sd \in SlotData, age \in Ages : ConnectedWith(sd, age)
    \/ ReceivedItemsAll \/ SessionLost \/ OnDeathLink
    \/ \E age \in Ages : CmdDeathlink(age)
    \/ \E b \in Batches : ReceivedItemsNew(b) \/ ServerCollects(b)

EnvStep ==
    \/ \E g \in Games : EmuStarts(g)
    \/ EmuStops
    \/ \E m \in MenuValues, s \in StageValues : GameMoves(m, s)

\* the game changes the memory that the scans of a tick read
MemoryStep ==
    \/ \E l \in Locations, v \in BoxValues : BoxMoves(l, v)
    \/ \E h \in HealthValues : HealthMoves(h)

Next ==
    \/ TaskStep \/ SyncStep \/ SessionStep \/ EnvStep \/ MemoryStep
    \/ DICall \/ KARCall \/ PointerMoves
    \/ \E name \in PatchItems : GivePatchItem(name)
    \/ Advance \/ Shutdown

Spec == Init /\ [][Next]_vars

\* the emulator runs the game, with City Trial selected in the menu, before
\* the client starts, and it stays up
ItemsInit ==
    /\ emu = "kar" /\ menu = CITY_TRIAL_MENU_SELECTION /\ stage = 0
    /\ hooked = FALSE
    /\ dolphin_status = CONNECTION_INITIAL_STATUS
    /\ transitioned = FALSE
    /\ transitioned_time = TRANSITION_WAIT
    /\ slot = FALSE
    /\ items_received = <<>>
    /\ serverItems = <<>>
    /\ watcher_event = FALSE
    /\ exit_event = FALSE
    /\ pc = "wait" /\ timer = WAIT_TIMEOUT
    /\ tasks = EmptyBag
    /\ applied = [x \in 1..MaxItems |-> "never"]
    /\ last_package = "none"
    /\ since_failed = -1
    /\ di = DIInit
    /\ boxes = [l \in Locations |-> BOX_LOCKED]
    /\ locations_checked = {}
    /\ goal = NoGoal
    /\ goal_checklist_amount = 0
    /\ finished_game = FALSE
    /\ victories = "never"
    /\ death_link = FALSE
    /\ since_death = -1
    /\ health = 1
    /\ deaths = "never"
    /\ adapter = AdapterInit
    /\ patches = PatchesInit("kar", 0)
    /\ world = KARWorld(DefaultOptions)

ItemsNext ==
    \/ TaskStep
    \/ TickNoSlot \/ TickRuns \/ AttemptConnects
    \/ Connected
    \/ \E b \in Batches : ReceivedItemsNew(b)
    \/ \E s \in StageValues : GameMoves(menu, s)
    \/ Advance

\* item delivery in one session: the game enters and leaves City Trial
ItemsSpec == ItemsInit /\ [][ItemsNext]_vars

\* deliveries of one or two items that may hold a code without a name
UnknownBatches ==
    LET ids == ItemIds \cup {UNKNOWN_ITEM}
    IN  { <<a>> : a \in ids } \cup { <<a, b>> : a \in ids, b \in ids }

UnknownNext ==
    \/ TaskStep
    \/ TickNoSlot \/ TickRuns \/ AttemptConnects
    \/ Connected
    \/ \E b \in UnknownBatches : ReceivedItemsNew(b)
    \/ \E s \in StageValues : GameMoves(menu, s)
    \/ Advance

\* item delivery in one session by a server that also sends codes that the
\* item table of the client does not hold
UnknownSpec == ItemsInit /\ [][UnknownNext]_vars

FaultNext ==
    \/ TaskStep
    \/ \E t \in BagToSet(tasks) : \E k \in 1..MaxItems : TaskWriteFaults(t, k)
    \/ TickRuns \/ TickFaultsFirst
    \/ AttemptConnects
    \/ EmuStarts("kar")
    \/ Connected
    \/ \E b \in Batches : ReceivedItemsNew(b)
    \/ \E s \in StageValues : GameMoves(menu, s)
    \/ Advance

\* item delivery in one session on an emulator that goes away under the
\* reads and writes of give_item and is started again
FaultSpec == ItemsInit /\ [][FaultNext]_vars

ReconnectNext ==
    \/ TaskStep
    \/ TickNoSlot \/ TickRuns \/ AttemptConnects
    \/ Connected \/ ReceivedItemsAll \/ SessionLost
    \/ \E b \in Batches : ReceivedItemsNew(b)
    \/ GameMoves(menu, CITY_TRIAL_STAGE_ID)
    \/ Advance

\* item delivery over sessions that are lost and made again: the game enters
\* City Trial and stays
ReconnectSpec == ItemsInit /\ [][ReconnectNext]_vars

AdapterNext ==
    \/ DIHook \/ DIUnhook
    \/ \E g \in Games : EmuStarts(g)
    \/ EmuStops
    \/ PointerMoves
    \/ DICall \/ KARCall

\* the read and write helpers called on an emulator that starts and stops
\* and a pointer that comes and goes
AdapterSpec == Init /\ [][AdapterNext]_vars

EffectNext ==
    \/ DIHook \/ DIUnhook
    \/ \E g \in Games : EmuStarts(g)
    \/ EmuStops
    \/ PointerMoves
    \/ \E v \in MemValues : write_float(v) \/ DI_write_pointer_float(v)
    \/ \E name \in EffectItems :
           \/ apply_effect_item(name)
           \/ \E hp \in MaxHpValues : DI_apply_effect_item(name, hp)

\* the special-effect items applied on an emulator that starts and stops and
\* a pointer that comes and goes
EffectSpec == Init /\ [][EffectNext]_vars

\* the game runs City Trial and the stats start from one value
PatchInit ==
    /\ emu = "kar" /\ menu = CITY_TRIAL_MENU_SELECTION
    /\ stage = CITY_TRIAL_STAGE_ID
    /\ hooked = TRUE
    /\ dolphin_status = CONNECTION_CONNECTED_STATUS
    /\ transitioned = TRUE
    /\ transitioned_time = TRANSITION_WAIT
    /\ slot = TRUE
    /\ items_received = <<>>
    /\ serverItems = <<>>
    /\ watcher_event = FALSE
    /\ exit_event = FALSE
    /\ pc = "wait" /\ timer = WAIT_TIMEOUT
    /\ tasks = EmptyBag
    /\ applied = [x \in 1..MaxItems |-> "never"]
    /\ last_package = "none"
    /\ since_failed = -1
    /\ di = DIInit
    /\ boxes = [l \in Locations |-> BOX_LOCKED]
    /\ locations_checked = {}
    /\ goal = PlainSlotData.goal
    /\ goal_checklist_amount = PlainSlotData.checklist_amount
    /\ finished_game = FALSE
    /\ victories = "never"
    /\ death_link = FALSE
    /\ since_death = -1
    /\ health = 1
    /\ deaths = "never"
    /\ adapter = AdapterInit
    /\ \E api \in {"kar", "di"}, v \in StartValues :
           patches = PatchesInit(api, v)
    /\ world = KARWorld(DefaultOptions)

\* a generation starts from any choice of the options
WorldInit == ContextInit /\ world \in { KARWorld(o) : o \in Options }

WorldNext == GenerateEarly \/ CreateRegions \/ CreateItems

\* the generation steps of one world, in the order in which the host calls
\* them, for every choice of the options
WorldSpec == WorldInit /\ [][WorldNext]_vars

PatchNext == \E name \in PatchItems : GivePatchItem(name)

\* patch items applied one after the other to stats that start from one
\* value, through the functions of KARClient or through a DolphinInterface
PatchSpec == PatchInit /\ [][PatchNext]_vars

GiveNext == \E name \in PatchItems \cup RewardItems : GiveItem(name)

\* patch and reward items applied one after the other
GiveSpec == PatchInit /\ [][GiveNext]_vars

\* the slot data of a world with or without DeathLink
DeathSlotData == { sd \in SlotData : sd = [PlainSlotData EXCEPT !.death_link = sd.death_link] }

DeathNext ==
    \/ TaskStep
    \/ TickNoSlot \/ TickRuns \/ AttemptConnects
    \/ \E sd \in DeathSlotData, age \in Ages : ConnectedWith(sd, age)
    \/ OnDeathLink
    \/ \E age \in Ages : CmdDeathlink(age)
    \/ \E s \in StageValues : GameMoves(menu, s)
    \/ \E h \in HealthValues : HealthMoves(h)
    \/ Advance

\* the death check in one session: the game enters and leaves City Trial,
\* the player dies and comes back, and DeathLink is switched on and off
DeathSpec == ItemsInit /\ [][DeathNext]_vars

\* the slot data of a world without DeathLink
LocSlotData == { sd \in SlotData : ~sd.death_link }

LocNext ==
    \/ TickNoSlot \/ TickRuns \/ TickFaultsFirst \/ TickFaultsLater
    \/ AttemptNoHook \/ AttemptConnects \/ SleepDone
    \/ EmuStarts("kar") \/ EmuStops
    \/ \E sd \in LocSlotData : ConnectedWith(sd, 0)
    \/ SessionLost
    \/ \E l \in Locations, v \in BoxValues : BoxMoves(l, v)
    \/ Advance

\* the location scan over sessions that are lost and made again and an
\* emulator that stops and starts, in a game that fills and locks checklist
\* boxes
LocSpec == ItemsInit /\ [][LocNext]_vars

\* a DolphinInterface polled once per tick
\* the slot data of a world whose goal is location 1
ReportSlotData ==
    [death_link |-> FALSE, goal |-> LocationGoal(1), checklist_amount |-> 1]

ReportNext ==
    \/ TickNoSlot \/ TickRuns
    \/ AttemptConnects
    \/ EmuStarts("kar")
    \/ ConnectedWith(ReportSlotData, 0) \/ SessionLost
    \/ \E l \in Locations, v \in BoxValues : BoxMoves(l, v)
    \/ Advance

\* the location scan over sessions of one world, on a game that runs
ReportSpec == Init /\ [][ReportNext]_vars

\* byte values a checklist box may hold: the three the scan names, their
\* combination, and values with other bits set
ByteValues == BoxValues \cup {2, 255}

ScanNext ==
    \/ TickRuns \/ TickFaultsLater
    \/ AttemptConnects
    \/ EmuStarts("kar")
    \/ Connected
    \/ \E l \in Locations, v \in ByteValues : BoxMoves(l, v)
    \/ Advance

\* the location scan of one session over every byte value of a box
ScanSpec == ItemsInit /\ [][ScanNext]_vars

DINext ==
    \/ DIHook \/ DIUnhook
    \/ DICheckTransition
    \/ DIAdvance
    \/ EnvStep

DISpec == Init /\ [][DINext]_vars

ProbeNext ==
    \/ DIHook \/ DIUnhook
    \/ DICheckTransition
    \/ EnvStep
    \/ Connected
    \/ TickRuns \/ TickFaultsFirst \/ AttemptConnects
    \/ Advance

\* both probes of City Trial, of the DolphinInterface and of the client's
\* tick, on one emulator
ProbeSpec == Init /\ [][ProbeNext]_vars

\* the connection state machine, with a slot that is never sent an item
ConnNext ==
    \/ \E t \in BagToSet(tasks) : TaskEnds(t)
    \/ SyncStep
    \/ Connected \/ SessionLost
    \/ EnvStep
    \/ Advance
    \/ Shutdown

ConnSpec == Init /\ [][ConnNext]_vars

\* the event loop runs the sync task whenever it can run, and time passes
FairConnSpec == ConnSpec /\ WF_vars(SyncStep) /\ WF_vars(Advance)

\* item delivery with time passing and the asyncio loop running every ready
\* give_items task
FairItemsSpec == ItemsSpec /\ WF_vars(TaskStep) /\ WF_vars(Advance)

(* ------------------------------ properties ---------------------------- *)
\* the item at position x of the session layer's list is tagged Permanent
IsPermanentItem(x) == x \in 1..Len(serverItems) /\ IsPermanentName(serverItems[x])

\* some give_items task in B, iterating recv if it holds the live list, has
\* still to give the item at position x
PendingIn(x, B, recv) ==
    \E t \in BagToSet(B) :
        LET its == IF t.live THEN recv ELSE t.items
        IN  \E k \in t.pos..Len(its) :
                /\ Ix(t, k) = x
                /\ ~t.perm \/ IsPermanentName(its[k])

AttemptStep ==
    AttemptNoHook \/ AttemptRefused \/ AttemptFaults \/ AttemptConnects

FailedAttemptStep == AttemptNoHook \/ AttemptRefused \/ AttemptFaults

\* C1: a give_items task writes item effects to game memory only while the
\* game is in City Trial and at least 6 seconds after the last entry edge
C1_AppliesOnlyInModePastDebounce ==
    [][\A t \in BagToSet(tasks) :
          TaskApplies(t) => (check_ingame_city_trial /\ DebounceElapsed)]_vars

\* C2: since the last entry edge every permanent item has been written at
\* most once
C2_PermanentOncePerEntry ==
    \A x \in 1..MaxItems : IsPermanentItem(x) => applied[x] # "again"

\* C3: every item the client holds in items_received that was never written
\* is held by a give_items task that has still to give it
C3_ReceivedItemsArePending ==
    \A x \in 1..Len(items_received) :
        applied[x] = "never" => PendingIn(x, tasks, items_received)

\* C4: a permanent item that an entry edge found received is written again
\* unless the game leaves City Trial first, and a task started by an entry
\* edge never writes an item that is not tagged Permanent
C4_EntryEdgeReappliesPermanent ==
    /\ \A x \in 1..MaxItems :
          (applied[x] = "due") ~> (applied[x] # "due" \/ ~check_ingame_city_trial)
    /\ [][\A t \in BagToSet(tasks) :
             (t.perm /\ TaskApplies(t)) =>
                 \A x \in 1..MaxItems :
                     ~IsPermanentItem(x) => applied'[x] = applied[x]]_vars

\* the first item of the list only ever arrives in a package with index 0, so
\* only a task started by an entry edge writes it: it is permanent and was
\* written after an entry edge, with the game still in City Trial
C4_Witness ==
    /\ IsPermanentItem(1)
    /\ applied[1] = "once"
    /\ transitioned
    /\ check_ingame_city_trial

\* C5: a ReceivedItems package with the whole list from index 0 makes no item
\* pending that was not pending before it, and an item that is not tagged
\* Permanent is never written more than once
C5_FullListAppliesNothing ==
    [][/\ ReceivedItemsAll =>
              \A x \in 1..MaxItems :
                  PendingIn(x, tasks', items_received')
                      => PendingIn(x, tasks, items_received)
       /\ \A x \in 1..MaxItems :
              ~IsPermanentItem(x) => applied'[x] # "again"]_vars

\* the whole list has just been delivered again and holds an item that was
\* written before
C5_Witness ==
    /\ last_package = "all"
    /\ \E x \in 1..Len(items_received) :
          ~IsPermanentItem(x) /\ applied[x] = "once"

C7_WaitedExactlyAfterWindow ==
    di.since_edge # -1 =>
        (transition_waited <=> di.since_edge >= TRANSITION_WAIT)

\* the window of an entry edge has run out
C7_Witness ==
    /\ di.since_edge = TRANSITION_WAIT
    /\ transition_waited
    /\ \E i \in 1..Len(di.calls) : di.calls[i].returned

C9_FailedAttemptWaitsFiveSeconds ==
    [][/\ FailedAttemptStep =>
              (~hooked' /\ dolphin_status' # CONNECTION_CONNECTED_STATUS)
       /\ AttemptStep =>
              (since_failed = -1 \/ since_failed >= RECONNECT_DELAY)]_vars

\* C10: a Connected tick runs only while the adapter is hooked and the game
\* identifier is that of Kirby Air Ride
C10_ConnectedOnlyWithGame ==
    [][(TickNoSlot \/ TickRuns) => (hooked /\ emu # "off" /\ check_game_running)]_vars


\* a step that takes a Connected packet: the slot is set
ConnectedStep == ~slot /\ slot'

\* C11 as stated: no step ever removes an identifier from the accumulated
\* set of satisfied locations
C11_NeverShrinks == [][locations_checked \subseteq locations_checked']_vars

\* C11: no tick, fault, loss of the session or change of the memory removes
\* an identifier from the accumulated set of satisfied locations, even when
\* the memory reads unsatisfied again; only a Connected packet empties it
C11_ShrinksOnlyOnConnected ==
    [][IF ConnectedStep
       THEN locations_checked' = {}
       ELSE locations_checked \subseteq locations_checked']_vars

\* a tick raised and the set still holds a location whose box is locked again
C11_Witness ==
    /\ dolphin_status = CONNECTION_LOST_STATUS
    /\ \E l \in locations_checked :
           boxes[l] \in {BOX_LOCKED, BOX_FLAGGED, BOX_VISIBLE}

\* C12 as stated: a location whose byte reads 0x10 on a Connected tick is in
\* the accumulated set after that tick
C12_VisibleLockAccumulates ==
    [][\A l \in Locations :
           (TickRuns /\ boxes[l] = BOX_VISIBLE) => l \in locations_checked']_vars

\* C12: after a Connected tick the accumulated set holds a location exactly
\* if it held it before or its byte reads other than 0x00, 0x01 and 0x10 on
\* this tick; so a location read open on one tick is still in the set after
\* a later tick that reads 0x00
C12_OpenBoxStaysAccumulated ==
    [][\A l \in Locations :
           TickRuns =>
               (l \in locations_checked' <=>
                    \/ l \in locations_checked
                    \/ boxes[l] \notin {BOX_LOCKED, BOX_FLAGGED, BOX_VISIBLE})]_vars

\* a Connected tick has just run on a box that reads 0x00 and the set holds
\* its location
C12_Witness ==
    /\ slot /\ ConnectedBranch
    /\ pc = "wait" /\ timer = WAIT_TIMEOUT /\ ~watcher_event
    /\ \E l \in locations_checked : boxes[l] = BOX_LOCKED

\* C13: at most one victory notice is ever sent, and a Connected tick that
\* completes with the win condition met leaves the notice sent: it goes out
\* on the first such tick and on no later one
C13_VictoryOnceOnFirstWin ==
    [][/\ victories' # "again"
       /\ finished_game' <=> (victories' = "once")
       /\ (TickRuns /\ WinCondition) => victories' = "once"]_vars

\* one notice was sent and a completed tick of a session with the count goal
\* leaves every location accumulated and every box open
C13_Witness ==
    /\ victories = "once"
    /\ slot /\ ConnectedBranch
    /\ pc = "wait" /\ timer = WAIT_TIMEOUT /\ ~watcher_event
    /\ goal.kind = "fill_n"
    /\ locations_checked = Locations
    /\ \A l \in Locations : boxes[l] \notin {BOX_LOCKED, BOX_FLAGGED, BOX_VISIBLE}

\* C14: a victory notice is sent only by a tick on which the goal location
\* reads satisfied or, with the goal 'Fill in N Checklist Boxes!', the
\* accumulated count reaches the checklist amount; with no goal there is
\* never a notice
C14_VictoryOnlyOnWinCondition ==
    [][/\ victories' # victories =>
              /\ TickRuns \/ TickFaultsLater
              /\ \/ /\ goal.kind = "location"
                    /\ goal.loc \in Locations
                    /\ boxes[goal.loc] \notin {BOX_LOCKED, BOX_FLAGGED, BOX_VISIBLE}
                 \/ /\ goal.kind = "fill_n"
                    /\ Cardinality(locations_checked') >= goal_checklist_amount
       /\ goal' = NoGoal => victories' = "never"]_vars

\* the notice went out for the count goal of a session that asked for every
\* location
C14_Witness ==
    /\ victories = "once"
    /\ goal.kind = "fill_n"
    /\ goal_checklist_amount = MaxLocs
    /\ Cardinality(locations_checked) >= goal_checklist_amount

\* C15: a death notice goes out only when 120 seconds have passed since the
\* last one, and the notice restarts that count: any two notices are at
\* least 120 seconds apart, so a dead player 10 seconds after a notice
\* causes none; with DeathLink on, in City Trial past the debounce, a dead
\* player whose last notice is 120 seconds old does cause one
C15_DeathNoticesTwoMinutesApart ==
    [][/\ deaths' # deaths =>
              /\ since_death >= DEATH_LINK_COOLDOWN
              /\ since_death' = 0
       /\ (TickRuns /\ since_death < DEATH_LINK_COOLDOWN) => deaths' = deaths
       /\ ( /\ TickRuns
            /\ death_link /\ health = 0
            /\ check_ingame_city_trial
            /\ transitioned_time' >= TRANSITION_WAIT
            /\ since_death >= DEATH_LINK_COOLDOWN ) => deaths' = Bump(deaths)]_vars

\* one notice went out 10 seconds ago and a tick has just read the health
\* at 0 again, with DeathLink on in City Trial past the debounce
C15_Witness ==
    /\ deaths = "once"
    /\ since_death = 10
    /\ health = 0
    /\ death_link /\ slot /\ ConnectedBranch
    /\ check_ingame_city_trial
    /\ transitioned_time >= TRANSITION_WAIT
    /\ pc = "wait" /\ timer = WAIT_TIMEOUT /\ ~watcher_event

\* C16: a death notice goes out only on a tick in City Trial, with the
\* debounce elapsed since the entry edge as this tick sees it, with
\* DeathLink enabled and with a health that is not above zero
C16_DeathNoticeOnlyWhenDeadInMode ==
    [][deaths' # deaths =>
           /\ TickRuns
           /\ menu = CITY_TRIAL_MENU_SELECTION /\ stage = CITY_TRIAL_STAGE_ID
           /\ transitioned_time' >= TRANSITION_WAIT
           /\ death_link
           /\ ~(health > 0)]_vars

\* a notice has just gone out for a health of exactly 0
C16_Witness ==
    /\ deaths # "never"
    /\ since_death = 0
    /\ health = 0
    /\ death_link
    /\ check_ingame_city_trial

\* the typed reads and the writes of the helpers, by the name of the call
ReadOps == {"read_byte", "read_bytes", "read_short", "read_float"}
WriteOps == {"write_short", "write_float", "write_pointer",
             "write_pointer_byte", "write_pointer_float"}
PointerOps == {"read_pointer", "write_pointer", "write_pointer_byte",
               "write_pointer_float"}

\* the zero-value default of a typed read
Default(op) == IF op = "read_bytes" THEN Empty ELSE Value(0)

\* C17: a typed read (byte, short, float, byte run) that is called while the
\* adapter is detached gives its zero-value default (0, 0, 0.0, the empty
\* byte run) and does not raise
C17_DetachedReadsReturnDefaults ==
    (adapter.call.op \in ReadOps /\ ~adapter.call.attached)
        => adapter.call.result = Default(adapter.call.op)

\* C18: a write gives True when it has written and False when it failed and
\* never raises; a pointer-relative call whose pointer does not resolve
\* writes nothing and gives what a failed direct call gives: the empty byte
\* run for a read, False for a write
C18_WritesReturnSuccessFlag ==
    LET call == adapter.call
        failed == IF call.op \in PointerOps
                  THEN ~call.resolved ELSE ~call.attached
    IN  /\ call.op \in WriteOps =>
               call.result = (IF failed THEN False ELSE True)
        /\ (call.op \in PointerOps /\ ~call.resolved) =>
               /\ ~call.wrote
               /\ call.op = "read_pointer" => call.result = Empty

\* the Up and the Down item of a stat
UpItem(t) == Words(t) \o <<"Up">>
DownItem(t) == Words(t) \o <<"Down">>

\* C19: the Up item of a stat adds 1 to that stat and the Down item after it
\* takes the 1 away again: after the two, each of the nine stats is at the
\* value it started from; this holds for 'Boost' and for each other stat
C19_UpThenDownRestores ==
    \A t \in PatchStats :
        /\ patches.log = <<UpItem(t)>> =>
               patches.stats = [u \in PatchStats |->
                                   IF u = t THEN patches.start + 1
                                   ELSE patches.start]
        /\ patches.log = <<UpItem(t), DownItem(t)>> =>
               patches.stats = [u \in PatchStats |-> patches.start]

\* 'Boost Up' and then 'Boost Down' were applied through the functions of
\* KARClient to stats that started from 1
C19_Witness ==
    /\ patches.api = "kar"
    /\ patches.start = 1
    /\ patches.log = <<UpItem("Boost"), DownItem("Boost")>>
    /\ patches.stats["Boost"] = 1

\* the stat that an item names: the one whose words the name starts with
Named(name) ==
    CHOOSE t \in PatchStats : SubSeq(name, 1, Len(Words(t))) = Words(t)

\* what an item does to a stat, by its name: 'All Up' adds 1 to every stat,
\* an Up item adds 1 to the stat it names and a Down item takes 1 from it
Effect(name, t) ==
    IF name = <<"All", "Up">> THEN 1
    ELSE IF Named(name) # t THEN 0
    ELSE IF name[Len(Words(t)) + 1] = "Up" THEN 1 ELSE 0 - 1

\* the sum of the effects of the items of a log on a stat
RECURSIVE Total(_, _)
Total(log, t) ==
    IF log = <<>> THEN 0 ELSE Effect(Head(log), t) + Total(Tail(log), t)

\* C20: each stat is at its start value plus the sum of the effects of the
\* items applied, where 'All Up' counts 1 for each of the nine stats and a
\* single-stat item counts for the stat it names only; a sum does not depend
\* on the order of the items
C20_AllUpAddsOneToEveryStat ==
    \A t \in PatchStats :
        patches.stats[t] = patches.start + Total(patches.log, t)

\* 'All Up' was applied after 'Top Speed Up' through a DolphinInterface
C20_Witness ==
    /\ patches.api = "di"
    /\ patches.log = <<UpItem("Top Speed"), <<"All", "Up">>>>
    /\ patches.stats["Top Speed"] = patches.start + 2
    /\ patches.stats["Turn"] = patches.start + 1

\* C21: a give_items task that runs on a readable memory ends only when
\* every item of its list that has a name, and that it was started for, has
\* been written: an item without a name in the list does not keep the
\* others from being applied
C21_UnknownItemIsSkipped ==
    [][\A t \in BagToSet(tasks) :
           (Readable /\ tasks' = tasks (-) Started(t)) =>
               \A k \in t.pos..Len(TaskItems(t)) :
                   ( /\ TaskItems(t)[k] \in ItemIds
                     /\ ~t.perm \/ IsPermanentName(TaskItems(t)[k]) )
                       => applied'[Ix(t, k)] \in {"once", "again"}]_vars

\* C22: applying a special-effect item on a game whose pointer resolves
\* leaves the pointer cell and the patch stats as they are and sets the
\* health behind the pointer: to 1 for "1 HP", to the observed maximum for
\* "Full Heal"
C22_EffectWritesHealthBehindPointer ==
    [][\A name \in EffectItems, hp \in MaxHpValues :
           ( /\ Resolves
             /\ apply_effect_item(name) \/ DI_apply_effect_item(name, hp) )
               => /\ adapter'.cell = adapter.cell
                  /\ adapter'.target = (IF name = "1 HP" THEN 1 ELSE hp)
                  /\ patches' = patches]_vars

\* C23: a step that applies a reward item leaves every patch stat, the
\* health and the memory behind the helpers as they are
C23_RewardItemWritesNothing ==
    [][( /\ Len(patches'.log) = Len(patches.log) + 1
         /\ patches'.log[Len(patches'.log)] \in RewardItems )
           => /\ patches'.stats = patches.stats
              /\ health' = health
              /\ adapter' = adapter
              /\ boxes' = boxes]_vars

\* a reward item whose name holds "All" and "Up" has been applied after a
\* patch item that moved the stats
C23_Witness ==
    /\ Len(patches.log) = 2
    /\ patches.log[1] \in PatchItems
    /\ patches.log[2] = <<"All", "Up", "Reward">>
    /\ \E t \in PatchStats : patches.stats[t] # patches.start

\* C24: the loop leaves its wait only when the event is set or the timeout
\* is over; the step that does so clears the event and runs one tick, after
\* which the loop is at a fresh wait, in the sleep of a failed attempt, or
\* done; and the loop moves by no step but its own
C24_WakeClearsAndRunsOneTick ==
    [][/\ (SyncStep /\ pc = "wait")
           => /\ watcher_event \/ timer = 0
              /\ watcher_event' = FALSE
              /\ pc' \in {"wait", "sleep", "done"}
              /\ pc' = "wait" => timer' = WAIT_TIMEOUT
              /\ pc' = "sleep" => timer' = RECONNECT_DELAY
       /\ pc' # pc => SyncStep]_vars

\* the loop woke by the timeout for a tick that saw the entry into City
\* Trial, and later by the event of the shutdown, which it cleared
C24_Witness ==
    /\ transitioned
    /\ exit_event
    /\ pc = "done"
    /\ ~watcher_event

\* C25: every step that writes an item to game memory is a step of the
\* sync loop: no task writes one while the loop waits between two ticks
C25_OnlyTheLoopTouchesItems ==
    [][(\E x \in 1..MaxItems :
            applied'[x] # applied[x] /\ applied'[x] \in {"once", "again"})
           => SyncStep]_vars

\* C26: once the exit event and the watcher event are both set the loop
\* eventually exits; a step of the loop taken after the exit event is set
\* ends the loop or is a failed attempt, whose sleep is the last thing the
\* loop does before it exits
C26_ShutdownEndsTheLoop ==
    /\ (exit_event /\ watcher_event) ~> (pc = "done")
    /\ [][(exit_event /\ SyncStep)
              => /\ pc' \in {"done", "sleep"}
                 /\ pc = "sleep" => pc' = "done"]_vars

\* the loop has exited after a shutdown that found it without a connection
\* to Dolphin, after a tick in City Trial had run
C26_Witness ==
    /\ pc = "done"
    /\ exit_event
    /\ transitioned
    /\ dolphin_status = CONNECTION_LOST_STATUS

\* C27: when the sync loop has exited, dolphin_memory_engine is not hooked
C27_ExitedLoopIsUnhooked ==
    pc = "done" => ~hooked

\* C28: the status is always one of the four status strings; it is the
\* initial one only while no connection attempt was made, and never again
\* after one; it becomes "connected" only by an attempt that hooked and read
\* the identifier of Kirby Air Ride, and stays "connected" only over steps
\* that are neither a faulting tick nor another attempt
C28_StatusFollowsLastAttempt ==
    /\ [](dolphin_status \in {CONNECTION_INITIAL_STATUS,
                              CONNECTION_CONNECTED_STATUS,
                              CONNECTION_LOST_STATUS,
                              CONNECTION_REFUSED_GAME_STATUS})
    /\ [](dolphin_status = CONNECTION_INITIAL_STATUS
              => (~hooked /\ since_failed = -1))
    /\ [][/\ dolphin_status' = CONNECTION_INITIAL_STATUS
              => (dolphin_status = CONNECTION_INITIAL_STATUS /\ ~AttemptStep)
          /\ dolphin_status' = CONNECTION_CONNECTED_STATUS
              => \/ /\ AttemptStep
                    /\ emu = "kar"
                    /\ hooked'
                 \/ /\ dolphin_status = CONNECTION_CONNECTED_STATUS
                    /\ ~(TickFaultsFirst \/ TickFaultsLater)
                    /\ ~AttemptStep]_vars

\* the status is "connected": the last attempt found the game and no tick
\* has faulted since, one tick saw the entry into City Trial, and the
\* emulator runs another game by now
C28_Witness ==
    /\ dolphin_status = CONNECTION_CONNECTED_STATUS
    /\ since_failed = -1
    /\ hooked
    /\ transitioned
    /\ emu = "other"

\* C29: is_in_city_trial is true only on a readable memory whose menu
\* selection is 0x0200 and whose stage is 0x0009, and check_transition
\* stores nothing else; a tick of the client stores City Trial as entered
\* only with both values, and a tick whose read fails stores nothing
C29_ProbeNeedsBothValues ==
    /\ [](is_in_city_trial
              => /\ Readable
                 /\ menu = CITY_TRIAL_MENU_SELECTION
                 /\ stage = CITY_TRIAL_STAGE_ID)
    /\ [][/\ DICheckTransition
              => (di'.transitioned
                      => /\ Readable
                         /\ menu = CITY_TRIAL_MENU_SELECTION
                         /\ stage = CITY_TRIAL_STAGE_ID)
          /\ TickRuns
              => (transitioned'
                      => /\ menu = CITY_TRIAL_MENU_SELECTION
                         /\ stage = CITY_TRIAL_STAGE_ID)
          /\ TickFaultsFirst => transitioned' = transitioned]_vars

\* the menu selection is still that of City Trial and the stage is another:
\* the last call of check_transition read "not in City Trial" after one that
\* read City Trial, and the ticks of the client, one of which had started
\* the task of an entry, hold the game as out of City Trial
C29_Witness ==
    /\ Readable
    /\ menu = CITY_TRIAL_MENU_SELECTION
    /\ stage # CITY_TRIAL_STAGE_ID
    /\ Len(di.calls) >= 2
    /\ di.calls[Len(di.calls) - 1].reading
    /\ ~di.calls[Len(di.calls)].reading
    /\ ~di.transitioned
    /\ ~transitioned
    /\ tasks # EmptyBag
    /\ slot

\* C30, as stated, for the goal location of a world whose goal is the same
\* location in every session: finished_game is set when a tick reads the
\* goal location as checked and is never reset, so after a tick that
\* completes a finished game has its goal location in the set handed to
\* check_locations
C30_EverObservedIsReported ==
    [][TickRuns => (finished_game' => goal.loc \in locations_checked')]_vars

\* C30, amended: a tick that completes hands check_locations every location
\* that it reads as checked and every location that the set held before it,
\* and hands it the same set again when it reads nothing new; between two
\* ticks the set loses a location only when a Connected packet is taken
C30_ObservedSinceConnectedIsReported ==
    [][/\ TickRuns
           => /\ \A l \in Locations :
                    ( \/ l \in locations_checked
                      \/ boxes[l] \notin {BOX_LOCKED, BOX_FLAGGED, BOX_VISIBLE} )
                        => l \in locations_checked'
              /\ (\A l \in Locations :
                      boxes[l] \notin {BOX_LOCKED, BOX_FLAGGED, BOX_VISIBLE}
                          => l \in locations_checked)
                    => locations_checked' = locations_checked
       /\ ~(locations_checked \subseteq locations_checked') => ConnectedStep]_vars

\* a tick of an earlier session read the goal location 1 as checked; the set
\* was emptied by the Connected packet of this session, the game holds
\* location 1 as locked again, and a tick of this session has handed over
\* location 2
C30_Witness ==
    /\ slot
    /\ finished_game
    /\ locations_checked = {2}
    /\ boxes[1] = BOX_LOCKED
    /\ boxes[2] \notin {BOX_LOCKED, BOX_FLAGGED, BOX_VISIBLE}

\* C31: a give_items task whose read or write fails is not queued again: the
\* step ends that task and starts no other, and writes no item twice
C31_FailedWriteIsNotRetried ==
    [][\A t \in BagToSet(tasks) :
           (TaskFaults(t) \/ \E k \in 1..MaxItems : TaskWriteFaults(t, k))
               => /\ BagCardinality(tasks') = BagCardinality(tasks) - 1
                  /\ CopiesIn(t, tasks') = CopiesIn(t, tasks) - 1
                  /\ \A x \in 1..MaxItems :
                         applied'[x] \in {applied[x], Bump(applied[x])}]_vars

\* the emulator went away under the second of two permanent items that the
\* task of an entry edge was giving: the first is written, the second is
\* still due, and no task holds it
C31_Witness ==
    /\ emu = "off"
    /\ Len(items_received) = 2
    /\ applied[1] = "once"
    /\ applied[2] = "due"
    /\ tasks = EmptyBag

\* C40: a give_items task whose read or write fails leaves every item that
\* it had still to write held by a task that has still to give it
C40_FaultKeepsItemsPending ==
    [][\A t \in BagToSet(tasks) :
           (TaskFaults(t) \/ \E k \in 1..MaxItems : TaskWriteFaults(t, k))
               => \A j \in Wanted(t) :
                      applied'[Ix(t, j)] = applied[Ix(t, j)]
                          => PendingIn(Ix(t, j), tasks', items_received')]_vars

\* C39: items are written in the order of their delivery: when an item has
\* been written, every item delivered before it has been written
C39_WrittenInDeliveryOrder ==
    \A a, b \in 1..Len(items_received) :
        (a < b /\ applied[b] \in {"once", "again"})
            => applied[a] \in {"once", "again"}

\* C34: a tick that scans the whole table leaves a location in the checked
\* set exactly when it was there before or its byte is none of 0x00, 0x01
\* and 0x10; a tick that stops part-way adds only locations with such a
\* byte; and no step of the client changes a checklist byte: the bytes
\* change only on a move of the game.
C34_CheckedIffByteIsOpen ==
    [][ /\ TickRuns =>
            /\ boxes' = boxes
            /\ \A l \in Locations :
                  l \in locations_checked' <=>
                      (l \in locations_checked \/ boxes[l] \notin {0, 1, 16})
        /\ TickFaultsLater =>
            /\ boxes' = boxes
            /\ \A l \in locations_checked' \ locations_checked :
                  boxes[l] \notin {0, 1, 16}
        /\ boxes' # boxes =>
              \E l \in Locations, v \in ByteValues : BoxMoves(l, v)
      ]_vars

\* after a scan: a box with all bits set is checked, a box flagged for
\* unlocking is not, and both bytes are still in memory
C34_Witness ==
    /\ slot /\ hooked
    /\ boxes[1] = 255 /\ boxes[2] = BOX_FLAGGED
    /\ locations_checked = {1}

\* C35: a Connected packet leaves the set of checked locations empty; within
\* a session the set grows only on a tick, and only by locations whose byte
\* that tick reads as checked; and a victory notice goes out only on a tick
\* of a session on which the goal location reads checked or the count of the
\* set, which holds nothing from before the packet, reaches the checklist
\* amount. Locations accumulated before the packet never count.
C35_ConnectedEmptiesTheSet ==
    [][ /\ (~slot /\ slot') => locations_checked' = {}
        /\ (slot /\ slot' /\ locations_checked' # locations_checked) =>
              /\ TickRuns \/ TickFaultsLater
              /\ locations_checked \subseteq locations_checked'
              /\ \A l \in locations_checked' \ locations_checked :
                    boxes[l] \notin {0, 1, 16}
        /\ victories' # victories =>
              /\ slot /\ slot'
              /\ \/ /\ goal.kind = "location"
                    /\ goal.loc \in Locations
                    /\ boxes[goal.loc] \notin {0, 1, 16}
                 \/ /\ goal.kind = "fill_n"
                    /\ \E S \in SUBSET Locations :
                          /\ Cardinality(S) >= goal_checklist_amount
                          /\ S \subseteq locations_checked'
      ]_vars

\* a client that met its goal and sent its notice has joined a session
\* again: the set is empty and no box reads as checked, so the count goal of
\* the session is not met
C35_Witness ==
    /\ slot
    /\ finished_game /\ victories = "once"
    /\ goal.kind = "fill_n" /\ goal_checklist_amount = 1
    /\ locations_checked = {}
    /\ \A l \in Locations : boxes[l] \in {0, 1, 16}

\* C36: once generate_early has run, whatever the three progression options
\* are, the progress and non-progress sets are disjoint, their union is the
\* whole location table, and every non-progress location is in the list of
\* an option that is switched off.
C36_LocationsArePartitioned ==
    world.phase # "new" =>
        /\ world.progress_locations \cap world.nonprogress_locations = {}
        /\ world.progress_locations \cup world.nonprogress_locations
               = LocationNames
        /\ \A l \in world.nonprogress_locations :
              \/ ~world.options.progression_high_effort /\ l \in HighEffortList
              \/ ~world.options.progression_multiplayer /\ l \in MultiplayerList
              \/ ~world.options.free_run_progression /\ l \in FreeRunList

\* with high-effort locations as progression and Free Run locations not, a
\* location of both lists is non-progress and one of the first list only is
\* progress
C36_Witness ==
    /\ world.phase = "early"
    /\ world.options.progression_high_effort
    /\ ~world.options.free_run_progression
    /\ "Free Run: Drive for a total of 10 minutes or more!"
           \in world.nonprogress_locations
    /\ "City Trial: break more than 500 boxes!" \in world.progress_locations

\* C33: in the item pool of a generation that create_items has completed:
\* with permanent_patches off there is no item whose name contains
\* 'Permanent'; with it on and permanent_patch_progression off every such
\* item is classified useful; with both on every permanent item of the
\* table is there as progression exactly its quantity of times.
C33_PermanentPatchesFollowTheOptions ==
    (world.phase = "items" /\ world.raised = "none") =>
        LET o == world.options
            permanent == { it \in DOMAIN world.itempool :
                               Contains(it.name, <<"Permanent">>) }
        IN  /\ ~o.permanent_patches => permanent = {}
            /\ (o.permanent_patches /\ ~o.permanent_patch_progression) =>
                  \A it \in permanent : it.classification = "useful"
            /\ (o.permanent_patches /\ o.permanent_patch_progression) =>
                  \A n \in { m \in ItemNames : Contains(m, <<"Permanent">>) } :
                      LET it == [name |-> n, classification |-> "progression"]
                      IN  /\ permanent = {it}
                          /\ world.itempool[it] = TableQuantity(n)

\* permanent patches are enabled and not progression, and one was drawn to
\* fill a location: it is in the pool as a useful item
C33_Witness ==
    /\ world.phase = "items" /\ world.raised = "none"
    /\ world.options.permanent_patches
    /\ ~world.options.permanent_patch_progression
    /\ [name |-> <<"Boost", "Up", ":", "Permanent", "+1">>,
        classification |-> "useful"] \in DOMAIN world.itempool

\* C32: in the item pool of a generation that create_items has completed:
\* with traps_enabled off or trap_chance 0 there is no item classified as a
\* trap; and with traps drawn, every item that the loop of create_items
\* finds classified as progression is still in the pool exactly its
\* quantity of times, so a trap only ever stands where a filler would.
C32_TrapsOnlyWhenEnabled ==
    (world.phase = "items" /\ world.raised = "none") =>
        LET o == world.options
        IN  /\ (~o.traps_enabled \/ o.trap_chance = 0) =>
                  \A it \in DOMAIN world.itempool : it.classification # "trap"
            /\ \A n \in ItemNames :
                  ( /\ TableClassification(n) = "progression"
                    /\ n \notin { LocationReward(l) : l \in LocationNames }
                    /\ o.permanent_patches /\ o.permanent_patch_progression )
                      => /\ [name |-> n, classification |-> "progression"]
                              \in DOMAIN world.itempool
                         /\ world.itempool[[name |-> n,
                                            classification |-> "progression"]]
                              = TableQuantity(n)

\* traps are enabled with a positive chance: a trap was drawn for a filler
\* slot, and the permanent patch is in the pool its quantity of times
C32_Witness ==
    /\ world.phase = "items" /\ world.raised = "none"
    /\ world.options.traps_enabled /\ world.options.trap_chance > 0
    /\ [name |-> <<"Boost", "Down">>, classification |-> "trap"]
           \in DOMAIN world.itempool
    /\ [name |-> <<"Boost", "Up", ":", "Permanent", "+1">>,
        classification |-> "progression"] \in DOMAIN world.itempool

\* C38: create_items ends in FillError exactly when the quantities of the
\* progression items that it is to place add up to more than the number of
\* locations that are neither excluded nor locked, and then the item pool
\* is as it was before the call: empty.
C38_FillErrorExactlyWhenTooFewLocations ==
    world.phase = "items" =>
        LET o == world.options
            rewards == { LocationReward(l) : l \in LocationNames }
            toPlace == { n \in ItemNames :
                           /\ TableClassification(n) = "progression"
                           /\ n \notin rewards
                           /\ Contains(n, <<"Permanent">>) =>
                                 ( /\ o.permanent_patches
                                   /\ o.permanent_patch_progression ) }
            count == SumOver([n \in toPlace |-> TableQuantity(n)], toPlace)
            free == { l \in LocationNames :
                        /\ l \notin o.exclude_locations
                        /\ ~( /\ o.checkbox_reward_items
                              /\ LocationReward(l) # <<"None">> ) }
        IN  /\ world.raised = "FillError" <=> count > Cardinality(free)
            /\ world.raised \in {"none", "FillError"}
            /\ world.raised = "FillError" => world.itempool = EmptyBag

\* with locked rewards and two excluded locations, fewer locations are left
\* than the permanent patch has copies: FillError, and an empty pool
C38_Witness ==
    /\ world.phase = "items"
    /\ world.raised = "FillError"
    /\ world.options.checkbox_reward_items
    /\ Cardinality(world.options.exclude_locations) = 2
    /\ world.itempool = EmptyBag

\* C37, as stated: when create_items completes without error, the pool
\* holds as many items as the world has unlocked locations, every item that
\* create_items considers and finds classified as progression is there
\* exactly its quantity of times, and no item of type 'Checkbox Reward' is
\* in the pool. The count fails when an excluded location is locked: the
\* filler drawn for it has no location.
C37_PoolMatchesUnlockedLocations ==
    (world.phase = "items" /\ world.raised = "none") =>
        LET o == world.options
            unlocked == { l \in LocationNames :
                            ~( /\ o.checkbox_reward_items
                               /\ LocationReward(l) # <<"None">> ) }
        IN  /\ BagCardinality(world.itempool) = Cardinality(unlocked)
            /\ \A n \in ItemNames :
                  ( /\ n \notin { LocationReward(l) : l \in LocationNames }
                    /\ o.permanent_patches \/ ~Contains(n, <<"Permanent">>)
                    /\ Classification(world, n) = "progression" )
                      => /\ create_item(world, n) \in DOMAIN world.itempool
                         /\ world.itempool[create_item(world, n)]
                              = TableQuantity(n)
            /\ \A it \in DOMAIN world.itempool :
                  it.name \notin { LocationReward(l) : l \in LocationNames }
====
